---- MODULE Spec2Model ----
(***************************************************************************)
(* Nex lexer generator: the regex -> NFA -> DFA pipeline of package graph  *)
(* and the runtime scanner of the generated lexer (package writer),        *)
(* driven over small rule sets and short inputs.                           *)
(***************************************************************************)
EXTENDS Integers, Sequences, FiniteSets, TLC

----------------------------------------------------------------------------
(* Small helpers over sequences and sets.                                  *)

Max2(a, b) == IF a >= b THEN a ELSE b

Range(s) == {s[i] : i \in 1..Len(s)}

(* With(v, F) is F(v), with v worked out once however often F reads it.    *)
With(v, F(_)) == CHOOSE y \in {F(x) : x \in {v}} : TRUE

(* The loop for k := lo; k <= hi; k++ { acc = step(acc, k) }.  The steps   *)
(* are taken in order; the range is halved so that a long loop nests no    *)
(* deeper than a short one.                                                *)
RECURSIVE forLoop(_, _, _, _)
forLoop(step(_, _), acc, lo, hi) ==
  IF lo > hi THEN acc
  ELSE IF lo = hi THEN step(acc, lo)
  ELSE With(forLoop(step, acc, lo, (lo + hi) \div 2), LAMBDA a :
         forLoop(step, a, (lo + hi) \div 2 + 1, hi))

(* The loop for !done(st) { st = step(st) }.  The steps are taken in       *)
(* order, n at most at a time and in halves, and n is doubled until the    *)
(* loop is left, so that a long loop nests no deeper than a short one.     *)
RECURSIVE stepsUpTo(_, _, _, _)
stepsUpTo(step(_), done(_), st, n) ==
  IF done(st) THEN st
  ELSE IF n = 1 THEN step(st)
  ELSE With(stepsUpTo(step, done, st, n \div 2), LAMBDA a :
         stepsUpTo(step, done, a, n - n \div 2))

RECURSIVE whileFrom(_, _, _, _)
whileFrom(step(_), done(_), st, n) ==
  With(stepsUpTo(step, done, st, n), LAMBDA a :
    IF done(a) THEN a ELSE whileFrom(step, done, a, 2 * n))

whileLoop(step(_), done(_), st) == With(st, LAMBDA st0 : whileFrom(step, done, st0, 1))

(* A recursion over a tree of records with the field Sub, as a loop: the   *)
(* result of x is make(x, subs), subs the results of x.Sub in order, and   *)
(* x itself where skip(x) says that the recursion returns at once.  The    *)
(* root is not skipped.  The stack holds the calls that are open: the      *)
(* node, the place k in its Sub, and the results so far.                   *)
postOrderStep(skip(_), make(_, _), st) ==
  LET n == Len(st.stack)
      top == st.stack[n]
  IN IF top.k > Len(top.node.Sub)
     THEN With(make(top.node, top.subs), LAMBDA r :
            IF n = 1 THEN [stack |-> <<>>, out |-> r]
            ELSE [stack |-> [SubSeq(st.stack, 1, n - 1) EXCEPT ![n - 1].subs = Append(@, r),
                                                               ![n - 1].k = @ + 1],
                  out |-> st.out])
     ELSE With(top.node.Sub[top.k], LAMBDA x :
            IF skip(x)
            THEN [st EXCEPT !.stack[n].subs = Append(@, x), !.stack[n].k = @ + 1]
            ELSE IF x.Sub = <<>>
            THEN [st EXCEPT !.stack[n].subs = Append(@, make(x, <<>>)), !.stack[n].k = @ + 1]
            ELSE [st EXCEPT !.stack = Append(@, [node |-> x, k |-> 1, subs |-> <<>>])])

postOrder(re, skip(_), make(_, _)) ==
  whileLoop(LAMBDA st : postOrderStep(skip, make, st), LAMBDA st : st.stack = <<>>,
            [stack |-> <<[node |-> re, k |-> 1, subs |-> <<>>]>>, out |-> re]).out

SetToSortedSeq(S) ==
  With(S, LAMBDA T :
    forLoop(LAMBDA sorted, k :
              Append(sorted, CHOOSE x \in T : x \notin Range(sorted) /\ \A y \in T : y \in Range(sorted) \/ x <= y),
            <<>>, 1, Cardinality(T)))

RECURSIVE Flatten(_)
Flatten(ss) == IF ss = <<>> THEN <<>> ELSE Head(ss) \o Flatten(Tail(ss))

RECURSIVE SeqsUpTo(_, _)
SeqsUpTo(S, n) ==
  IF n = 0 THEN {<<>>}
  ELSE LET shorter == SeqsUpTo(S, n - 1)
       IN shorter \cup {Append(s, x) : s \in {t \in shorter : Len(t) = n - 1}, x \in S}

----------------------------------------------------------------------------
(* Edge kinds and assertion bits of package graph.  An Asserts value is a  *)
(* uint64 bit mask; it is modelled as the set of its set bit positions, so *)
(* that a | b is union, a & b is intersection and a != 0 is non-emptiness. *)

KNil == 0
KRune == 1
KClass == 2
KAssert == 3
KWild == 4

AStartText == {0}
AEndText == {1}
AStartLine == {2}
AEndLine == {3}
AWordBoundary == {4}
ANoWordBoundary == {5}

(* Graph nodes: a graph is a sequence of nodes, the node with Id i is at   *)
(* index i + 1.                                                            *)
Node(g, id) == g[id + 1]

newNode(g) == Append(g, [E |-> <<>>, Accept |-> -1, Set |-> <<>>])

newKindEdge(g, u, e) == [g EXCEPT ![u + 1].E = Append(@, e)]

newNilEdge(g, u, v) ==
  newKindEdge(g, u, [Kind |-> KNil, Dst |-> v, R |-> 0, A |-> {}, Lim |-> <<>>])

newRuneEdge(g, u, v, r) ==
  newKindEdge(g, u, [Kind |-> KRune, Dst |-> v, R |-> r, A |-> {}, Lim |-> <<>>])

newClassEdge(g, u, v, lim) ==
  newKindEdge(g, u, [Kind |-> KClass, Dst |-> v, R |-> 0, A |-> {}, Lim |-> lim])

newWildEdge(g, u, v) ==
  newKindEdge(g, u, [Kind |-> KWild, Dst |-> v, R |-> 0, A |-> {}, Lim |-> <<>>])

newAssertEdge(g, u, v, a) ==
  newKindEdge(g, u, [Kind |-> KAssert, Dst |-> v, R |-> 0, A |-> a, Lim |-> <<>>])

(* limits.inClass: lim is a flat list of lo, hi pairs.                     *)
inClass(lim, r) ==
  \E j \in 1..(Len(lim) \div 2) : lim[2 * j - 1] <= r /\ r <= lim[2 * j]

----------------------------------------------------------------------------
(* Regular expressions as regexp/syntax delivers them, in the fields that  *)
(* build reads (syntaxParse below is the parse of the Go library).         *)

Re(op, runes, fold, sub, min, max) ==
  [Op |-> op, Rune |-> runes, Fold |-> fold, Sub |-> sub, Min |-> min, Max |-> max]

Lit(runes) == Re("OpLiteral", runes, FALSE, <<>>, 0, 0)
LitFold(runes) == Re("OpLiteral", runes, TRUE, <<>>, 0, 0)
Class(lim) == Re("OpCharClass", lim, FALSE, <<>>, 0, 0)
AnyChar == Re("OpAnyCharNotNL", <<>>, FALSE, <<>>, 0, 0)
EmptyMatch == Re("OpEmptyMatch", <<>>, FALSE, <<>>, 0, 0)
BeginText == Re("OpBeginText", <<>>, FALSE, <<>>, 0, 0)
EndText == Re("OpEndText", <<>>, FALSE, <<>>, 0, 0)
BeginLine == Re("OpBeginLine", <<>>, FALSE, <<>>, 0, 0)
EndLine == Re("OpEndLine", <<>>, FALSE, <<>>, 0, 0)
WordB == Re("OpWordBoundary", <<>>, FALSE, <<>>, 0, 0)
NoWordB == Re("OpNoWordBoundary", <<>>, FALSE, <<>>, 0, 0)
Capture(x) == Re("OpCapture", <<>>, FALSE, <<x>>, 0, 0)
Plus(x) == Re("OpPlus", <<>>, FALSE, <<x>>, 0, 0)
Star(x) == Re("OpStar", <<>>, FALSE, <<x>>, 0, 0)
Quest(x) == Re("OpQuest", <<>>, FALSE, <<x>>, 0, 0)
Repeat(x, min, max) == Re("OpRepeat", <<>>, FALSE, <<x>>, min, max)
Concat(subs) == Re("OpConcat", <<>>, FALSE, subs, 0, 0)
Alternate(subs) == Re("OpAlternate", <<>>, FALSE, subs, 0, 0)

AssertOfOp(op) ==
  CASE op = "OpBeginLine" -> AStartLine
    [] op = "OpEndLine" -> AEndLine
    [] op = "OpBeginText" -> AStartText
    [] op = "OpEndText" -> AEndText
    [] op = "OpWordBoundary" -> AWordBoundary
    [] op = "OpNoWordBoundary" -> ANoWordBoundary

IsAssertOp(op) ==
  op \in {"OpBeginLine", "OpEndLine", "OpBeginText", "OpEndText",
          "OpWordBoundary", "OpNoWordBoundary"}

----------------------------------------------------------------------------
(* nfaBuilder.build: a sub-NFA is [g, start, end], g the graph built so    *)
(* far.                                                                    *)

RECURSIVE build(_, _)
RECURSIVE buildLiteral(_, _, _, _, _)
RECURSIVE buildConcat(_, _, _, _)
RECURSIVE buildAlternate(_, _, _, _, _)
RECURSIVE buildRepeatMin(_, _, _, _, _)
RECURSIVE buildRepeatOpt(_, _, _, _, _)

buildLiteral(g, curEnd, runes, i, fold) ==
  forLoop(LAMBDA st, k :
            With(Len(st.g), LAMBDA n :
              With(newRuneEdge(newNode(st.g), st.end, n, runes[k]), LAMBDA g1 :
                [g |-> IF fold /\ runes[k] >= 65 /\ runes[k] <= 90
                       THEN newRuneEdge(g1, st.end, n, runes[k] + 32)
                       ELSE g1,
                 end |-> n])),
          [g |-> g, end |-> curEnd], i, Len(runes))

buildConcat(g, curStart, subs, i) ==
  forLoop(LAMBDA st, k :
            With(build(st.g, subs[k]), LAMBDA nfa :
              [g |-> newNilEdge(nfa.g, st.end, nfa.start), end |-> nfa.end]),
          [g |-> g, end |-> curStart], i, Len(subs))

buildAlternate(g, start, end, subs, i) ==
  forLoop(LAMBDA acc, k :
            With(build(acc, subs[k]), LAMBDA sNfa :
              newNilEdge(newNilEdge(sNfa.g, start, sNfa.start), sNfa.end, end)),
          g, i, Len(subs))

(* The first loop of OpRepeat: Min copies chained by nil edges.  Returns   *)
(* the graph, prevEnd and the start of the last copy (lastNfa.start).      *)
buildRepeatMin(g, prevEnd, lastStart, x, k) ==
  forLoop(LAMBDA st, j :
            With(build(st.g, x), LAMBDA rNfa :
              [g |-> newNilEdge(rNfa.g, st.prevEnd, rNfa.start), prevEnd |-> rNfa.end,
               lastStart |-> rNfa.start]),
          [g |-> g, prevEnd |-> prevEnd, lastStart |-> lastStart], 1, k)

(* The second loop of OpRepeat: Max - Min optional copies.                 *)
buildRepeatOpt(g, prevEnd, end, x, k) ==
  forLoop(LAMBDA st, j :
            With(build(st.g, x), LAMBDA rNfa :
              [g |-> newNilEdge(newNilEdge(rNfa.g, st.prevEnd, rNfa.start), rNfa.end, end),
               prevEnd |-> rNfa.end]),
          [g |-> g, prevEnd |-> prevEnd], 1, k).g

build(g, r) ==
  CASE r.Op = "OpEmptyMatch" ->
         LET s == Len(g)
             g2 == newNode(newNode(g))
         IN [g |-> newNilEdge(g2, s, s + 1), start |-> s, end |-> s + 1]
    [] r.Op = "OpLiteral" ->
         LET s == Len(g)
             res == buildLiteral(newNode(g), s, r.Rune, 1, r.Fold)
         IN [g |-> res.g, start |-> s, end |-> res.end]
    [] r.Op = "OpCharClass" ->
         LET s == Len(g)
             g2 == newNode(newNode(g))
         IN [g |-> newClassEdge(g2, s, s + 1, r.Rune), start |-> s, end |-> s + 1]
    [] r.Op \in {"OpAnyCharNotNL", "OpAnyChar"} ->
         LET s == Len(g)
             g2 == newNode(newNode(g))
         IN [g |-> newWildEdge(g2, s, s + 1), start |-> s, end |-> s + 1]
    [] IsAssertOp(r.Op) ->
         LET s == Len(g)
             g2 == newNode(newNode(g))
         IN [g |-> newAssertEdge(g2, s, s + 1, AssertOfOp(r.Op)),
             start |-> s, end |-> s + 1]
    [] r.Op = "OpCapture" -> build(g, r.Sub[1])
    [] r.Op = "OpPlus" ->
         LET nfa == build(g, r.Sub[1])
         IN [g |-> newNilEdge(nfa.g, nfa.end, nfa.start),
             start |-> nfa.start, end |-> nfa.end]
    [] r.Op = "OpStar" ->
         LET nfa == build(g, r.Sub[1])
         IN [g |-> newNilEdge(nfa.g, nfa.end, nfa.start),
             start |-> nfa.end, end |-> nfa.end]
    [] r.Op = "OpQuest" ->
         LET nfa == build(g, r.Sub[1])
         IN [g |-> newNilEdge(nfa.g, nfa.start, nfa.end),
             start |-> nfa.start, end |-> nfa.end]
    [] r.Op = "OpRepeat" ->
         LET s == Len(g)
             e == s + 1
             g2 == newNode(newNode(g))
             m == buildRepeatMin(g2, s, s, r.Sub[1], r.Min)
             g3 == newNilEdge(m.g, m.prevEnd, e)
         IN IF r.Max < 0
            THEN [g |-> newNilEdge(g3, m.prevEnd, m.lastStart), start |-> s, end |-> e]
            ELSE [g |-> buildRepeatOpt(g3, m.prevEnd, e, r.Sub[1], r.Max - r.Min),
                  start |-> s, end |-> e]
    [] r.Op = "OpConcat" ->
         LET s == Len(g)
             res == buildConcat(newNode(g), s, r.Sub, 1)
         IN [g |-> res.g, start |-> s, end |-> res.end]
    [] r.Op = "OpAlternate" ->
         LET s == Len(g)
             e == s + 1
             g2 == newNode(newNode(g))
         IN [g |-> buildAlternate(g2, s, e, r.Sub, 1), start |-> s, end |-> e]

(* compactGraph: breadth-first list of the nodes reachable from start,     *)
(* renumbered by their position in the list.                               *)
compactVisit(g, nodes, visited, pos) ==
  whileLoop(
    LAMBDA st :
      With(Node(g, st.nodes[st.pos]).E, LAMBDA es :
        With(forLoop(LAMBDA p, k :
                       IF es[k].Dst \in p.visited THEN p
                       ELSE [nodes |-> Append(p.nodes, es[k].Dst),
                             visited |-> p.visited \cup {es[k].Dst}],
                     [nodes |-> st.nodes, visited |-> st.visited], 1, Len(es)), LAMBDA r :
          [nodes |-> r.nodes, visited |-> r.visited, pos |-> st.pos + 1])),
    LAMBDA st : st.pos > Len(st.nodes),
    [nodes |-> nodes, visited |-> visited, pos |-> pos]).nodes

compactGraph(g, start) ==
  LET nodes == compactVisit(g, <<start>>, {}, 1)
      newId(old) == (CHOOSE i \in 1..Len(nodes) :
                       nodes[i] = old /\ \A j \in 1..Len(nodes) : nodes[j] = old => j <= i) - 1
  IN [i \in 1..Len(nodes) |->
        LET n == Node(g, nodes[i])
        IN [E |-> [k \in 1..Len(n.E) |-> [n.E[k] EXCEPT !.Dst = newId(@)]],
            Accept |-> n.Accept, Set |-> <<>>]]

(* A faulty variant of the loop of BuildNfa: the start of the sub-NFA is   *)
(* given the rule's id.                                                    *)
buildRulesStartFault(g, exprs, i) ==
  forLoop(LAMBDA acc, k :
            With(build(acc, exprs[k].Regex), LAMBDA sNfa :
              With([sNfa.g EXCEPT ![sNfa.start + 1].Accept = exprs[k].Id], LAMBDA g1 :
                newNilEdge(g1, 0, sNfa.start))),
          g, i, Len(exprs))

(* BuildNfa: exprs is the list of the scope's rules, each [Id, Regex].     *)
buildRules(g, exprs, i) ==
  forLoop(LAMBDA acc, k :
            With(build(acc, exprs[k].Regex), LAMBDA sNfa :
              With([sNfa.g EXCEPT ![sNfa.end + 1].Accept = exprs[k].Id], LAMBDA g1 :
                newNilEdge(g1, 0, sNfa.start))),
          g, i, Len(exprs))

BuildNfa(exprs) == With(buildRules(newNode(<<>>), exprs, 1), LAMBDA g : compactGraph(g, 0))

----------------------------------------------------------------------------
(* The DFA builder of package graph.  A flagSet maps every NFA node id to  *)
(* nfNotSet, nfNotAccepting or nfAccepting.                                *)

nfNotSet == 0
nfNotAccepting == 1
nfAccepting == 2

NfaIds(nfa) == 0..(Len(nfa) - 1)

newEmptySt(nfa) == [i \in NfaIds(nfa) |-> nfNotSet]

setToSt(nfa, set, value) ==
  [i \in NfaIds(nfa) |-> IF i \in Range(set) THEN value ELSE nfNotSet]

stToSet(st) == SetToSortedSeq({i \in DOMAIN st : st[i] # nfNotSet})

(* The callbacks handed to closure and makeSt.                             *)
CbNil == [mode |-> "nil", a |-> {}, r |-> 0]
CbAnyAssert == [mode |-> "anyAssert", a |-> {}, r |-> 0]
CbAssert(a) == [mode |-> "assert", a |-> a, r |-> 0]
CbSingle(r) == [mode |-> "single", a |-> {}, r |-> r]
CbRange(lo) == [mode |-> "range", a |-> {}, r |-> lo]
CbWild == [mode |-> "wild", a |-> {}, r |-> 0]

CbHolds(cb, e) ==
  CASE cb.mode = "nil" -> FALSE
    [] cb.mode = "anyAssert" -> e.Kind = KAssert
    [] cb.mode = "assert" -> e.Kind = KAssert /\ (e.A \cap cb.a) # {}
    [] cb.mode = "single" ->
         \/ (e.Kind = KRune /\ e.R = cb.r)
         \/ e.Kind = KWild
         \/ (e.Kind = KClass /\ inClass(e.Lim, cb.r))
    [] cb.mode = "range" ->
         \/ e.Kind = KWild
         \/ (e.Kind = KClass /\ inClass(e.Lim, cb.r))
    [] cb.mode = "wild" -> e.Kind = KWild

(* dfaBuilder.closure: a worklist over the set nodes; every node reached   *)
(* over a nil edge (or an edge the callback accepts) from a node visited   *)
(* before it is flagged nfAccepting.                                       *)
closureLoop(nfa, st, bfs, visited, cb) ==
  whileLoop(
    LAMBDA c :
      With(Head(c.bfs), LAMBDA i :
        IF i \in c.visited THEN [c EXCEPT !.bfs = Tail(@)]
        ELSE With(c.visited \cup {i}, LAMBDA vis :
               With(Node(nfa, i).E, LAMBDA es :
                 With(forLoop(LAMBDA p, k :
                                IF es[k].Dst \in vis THEN p
                                ELSE IF es[k].Kind = KNil \/ CbHolds(cb, es[k])
                                THEN [st |-> [p.st EXCEPT ![es[k].Dst] = nfAccepting],
                                      bfs |-> Append(p.bfs, es[k].Dst)]
                                ELSE p,
                              [st |-> c.st, bfs |-> Tail(c.bfs)], 1, Len(es)), LAMBDA r :
                   [st |-> r.st, bfs |-> r.bfs, visited |-> vis])))),
    LAMBDA c : c.bfs = <<>>,
    [st |-> st, bfs |-> bfs, visited |-> visited]).st

closure(nfa, st, cb) == closureLoop(nfa, st, stToSet(st), {}, cb)

nilClosure(nfa, st) == closure(nfa, st, CbNil)

(* constructAllNilList: the non-accepting nodes with nil edges only.       *)
constructAllNilList(nfa) ==
  {i \in NfaIds(nfa) :
     /\ ~(Node(nfa, i).Accept > -1)
     /\ \A k \in 1..Len(Node(nfa, i).E) : Node(nfa, i).E[k].Kind = KNil}

(* makeStKey: clears the all-nil nodes, then the key is the set of set     *)
(* nodes (the '0'/'1' string) with the least accept among the nodes        *)
(* flagged nfAccepting.                                                    *)
(* A faulty variant of MinAccept: the highest accepting rule id.           *)
MaxAcceptFault(accs) ==
  IF accs = {} THEN -1 ELSE CHOOSE m \in accs : \A x \in accs : m >= x

MinAccept(accs) ==
  IF accs = {} THEN -1 ELSE CHOOSE m \in accs : \A x \in accs : m <= x

makeStKeySt(allNil, st) == [i \in DOMAIN st |-> IF i \in allNil THEN nfNotSet ELSE st[i]]

makeStKey(nfa, allNil, st) ==
  LET st1 == makeStKeySt(allNil, st)
  IN [key |-> {i \in DOMAIN st1 : st1[i] # nfNotSet},
      accept |-> MinAccept({Node(nfa, i).Accept : i \in
                   {j \in DOMAIN st1 : st1[j] = nfAccepting /\ Node(nfa, j).Accept >= 0}})]

(* The builder: nfa, allNilNodes, tab (key -> node id), todo and the DFA   *)
(* nodes made so far (nextId is their number).                             *)
constructEndNode(nfa, allNil) == (makeStKey(nfa, allNil, newEmptySt(nfa)) :> -1)

(* A faulty variant of get: the node is not looked up in tab.              *)
getNoLookupFault(b, st) ==
  LET st1 == nilClosure(b.nfa, st)
      key == makeStKey(b.nfa, b.allNilNodes, st1)
      st2 == makeStKeySt(b.allNilNodes, st1)
      id == Len(b.nodes)
  IN [b |-> [b EXCEPT !.nodes = Append(@, [E |-> <<>>, Accept |-> key.accept,
                                            Set |-> stToSet(st2)]),
                      !.tab = (key :> id) @@ @,
                      !.todo = Append(@, id)],
      id |-> id]

(* dfaBuilder.get: returns the builder and the id of the node for st.      *)
get(b, st) ==
  LET st1 == nilClosure(b.nfa, st)
      key == makeStKey(b.nfa, b.allNilNodes, st1)
      st2 == makeStKeySt(b.allNilNodes, st1)
  IN IF key \in DOMAIN b.tab THEN [b |-> b, id |-> b.tab[key]]
     ELSE LET id == Len(b.nodes)
          IN [b |-> [b EXCEPT !.nodes = Append(@, [E |-> <<>>, Accept |-> key.accept,
                                                    Set |-> stToSet(st2)]),
                              !.tab = (key :> id) @@ @,
                              !.todo = Append(@, id)],
              id |-> id]

(* dfaBuilder.makeSt: the destinations of the edges the callback accepts.  *)
makeSt(b, v, cb) ==
  LET set == Node(b.nodes, v).Set
  IN [d \in NfaIds(b.nfa) |->
        IF \E k \in 1..Len(set) : \E j \in 1..Len(Node(b.nfa, set[k]).E) :
              Node(b.nfa, set[k]).E[j].Dst = d /\ CbHolds(cb, Node(b.nfa, set[k]).E[j])
        THEN nfAccepting ELSE nfNotSet]

getCb(b, v, cb) == get(b, makeSt(b, v, cb))

getKind(b, v) == get(b, makeSt(b, v, CbWild))

(* A faulty variant of getAssertWithClosure: the closure starts from the    *)
(* empty set and not from the set of the state.                            *)
getAssertWithClosureEmptyFault(b, v, a) ==
  get(b, closure(b.nfa, setToSt(b.nfa, <<>>, nfNotAccepting), CbAssert(a)))

getAssertWithClosure(b, v, a) ==
  get(b, closure(b.nfa, setToSt(b.nfa, Node(b.nodes, v).Set, nfNotAccepting), CbAssert(a)))

(* A faulty variant of getAssertsSubsets: the single bits only.            *)
getAssertsSubsetsSinglesFault(a) ==
  LET options == SetToSortedSeq(a)
  IN [i \in 1..Len(options) |-> {options[i]}]

(* getAssertsSubsets: the single bits of a, then every non-empty union of  *)
(* them in counting order.                                                 *)
getAssertsSubsets(a) ==
  LET options == SetToSortedSeq(a)
      opSize == Len(options)
  IN IF opSize = 0 THEN <<>>
     ELSE IF opSize = 1 THEN <<{options[1]}>>
     ELSE [i \in 1..(2 ^ opSize - 1) |->
             {options[j] : j \in {k \in 1..opSize : (i \div (2 ^ (k - 1))) % 2 = 1}}]

(* insertLimits and appendLimits, on the flat list of lo, hi pairs; i is   *)
(* the 0-based index of the code.                                          *)
insertLimits(l, i, r1, r2) == SubSeq(l, 1, i) \o <<r1, r2>> \o SubSeq(l, i + 1, Len(l))

appendLimitsSlot(l, r1) ==
  LET hits == {j \in 0..(Len(l) \div 2 - 1) : r1 <= l[2 * j + 2]}
  IN IF hits = {} THEN Len(l) ELSE 2 * (CHOOSE j \in hits : \A k \in hits : j <= k)

(* A call of appendLimits returns, or it ends in a call of itself.          *)
(* appendLimitsCall is one call: ret says that it returned l, and else     *)
(* l, r1 and r2 are the arguments of the call it ends in.                  *)
appendLimitsCall(l, r1, r2) ==
  LET i == appendLimitsSlot(l, r1)
      return(res) == [ret |-> TRUE, l |-> res, r1 |-> r1, r2 |-> r2]
      call(la, ra, rb) == [ret |-> FALSE, l |-> la, r1 |-> ra, r2 |-> rb]
  IN IF Len(l) = i \/ r2 < l[i + 1] THEN return(insertLimits(l, i, r1, r2))
     ELSE IF r1 < l[i + 1]
          THEN LET l1 == insertLimits(l, i, l[i + 1] - 1, r1)
               IN call(l1, l1[i + 1], r2)
     ELSE IF r1 > l[i + 1]
          THEN LET l1 == [insertLimits(l, i, l[i + 1], r1 - 1) EXCEPT ![i + 3] = r1]
               IN call(l1, r1, r2)
     ELSE IF r2 = l[i + 2] THEN return(l)
     ELSE IF r2 < l[i + 2]
          THEN return([insertLimits(l, i, r1, r2) EXCEPT ![i + 3] = r2 + 1])
     ELSE call(l, l[i + 2] + 1, r2)

appendLimits(l, r1, r2) ==
  whileLoop(LAMBDA c : appendLimitsCall(c.l, c.r1, c.r2), LAMBDA c : c.ret,
            appendLimitsCall(l, r1, r2)).l

(* getDfaEdges: the singles (sorted), the ranges and the assert subsets of *)
(* DFA node v.                                                             *)
limitsOfPairs(l, lim, j) ==
  forLoop(LAMBDA acc, q : IF lim[2 * q - 1] = lim[2 * q] THEN acc
                          ELSE appendLimits(acc, lim[2 * q - 1], lim[2 * q]),
          l, j, Len(lim) \div 2)

EdgesOfSet(nfa, set) == Flatten([k \in 1..Len(set) |-> Node(nfa, set[k]).E])

limitsOfEdges(l, es, k) ==
  forLoop(LAMBDA acc, i : IF es[i].Kind = KClass THEN limitsOfPairs(acc, es[i].Lim, 1) ELSE acc,
          l, k, Len(es))

(* A faulty variant of sortedAlphabet: the keys in the order the map gave  *)
(* them.                                                                   *)
sortedAlphabetMapOrderFault(keys) == keys

(* sortedAlphabet: the keys of the map alphabet, which a range over the    *)
(* map gives in any order, sorted.                                         *)
sortedAlphabet(keys) == SetToSortedSeq(Range(keys))

(* The keys of the map alphabet of DFA node v: the runes of its rune edges *)
(* and of the one-rune ranges of its class edges.                          *)
alphabetKeys(b, v) ==
  LET es == EdgesOfSet(b.nfa, Node(b.nodes, v).Set)
      singles == {es[k].R : k \in {j \in 1..Len(es) : es[j].Kind = KRune}}
      classSingles == UNION {{es[k].Lim[2 * p - 1] :
                                p \in {q \in 1..(Len(es[k].Lim) \div 2) :
                                         es[k].Lim[2 * q - 1] = es[k].Lim[2 * q]}} :
                             k \in {j \in 1..Len(es) : es[j].Kind = KClass}}
  IN singles \cup classSingles

(* keys: the keys of the map alphabet in the order its range gives them.   *)
getDfaEdges(b, v, keys) ==
  LET set == Node(b.nodes, v).Set
      es == EdgesOfSet(b.nfa, set)
      st == closure(b.nfa, setToSt(b.nfa, set, nfAccepting), CbAnyAssert)
      ces == EdgesOfSet(b.nfa, stToSet(st))
      a == UNION {ces[k].A : k \in {j \in 1..Len(ces) : ces[j].Kind = KAssert}}
  IN [alphabet |-> sortedAlphabet(keys),
      l |-> limitsOfEdges(<<>>, es, 1),
      allAsserts |-> getAssertsSubsets(a)]

(* BuildDfa: the worklist loop; todo is a stack (nextTodo takes the last). *)
addDfaEdge(b, v, e) == [b EXCEPT !.nodes = newKindEdge(@, v, e)]

addAssertEdges(b, v, as, k) ==
  forLoop(LAMBDA acc, i :
            With(getAssertWithClosure(acc, v, as[i]), LAMBDA r :
              addDfaEdge(r.b, v, [Kind |-> KAssert, Dst |-> r.id, R |-> 0, A |-> as[i], Lim |-> <<>>])),
          b, k, Len(as))

(* A faulty variant of addRuneEdges: the destination of a single is that   *)
(* of the class and wild edges only.                                       *)
addRuneEdgesClassOnlyFault(b, v, alphabet, k) ==
  forLoop(LAMBDA acc, i :
            With(getCb(acc, v, CbRange(alphabet[i])), LAMBDA r :
              addDfaEdge(r.b, v, [Kind |-> KRune, Dst |-> r.id, R |-> alphabet[i], A |-> {}, Lim |-> <<>>])),
          b, k, Len(alphabet))

addRuneEdges(b, v, alphabet, k) ==
  forLoop(LAMBDA acc, i :
            With(getCb(acc, v, CbSingle(alphabet[i])), LAMBDA r :
              addDfaEdge(r.b, v, [Kind |-> KRune, Dst |-> r.id, R |-> alphabet[i], A |-> {}, Lim |-> <<>>])),
          b, k, Len(alphabet))

addClassEdges(b, v, l, j) ==
  forLoop(LAMBDA acc, q :
            With(getCb(acc, v, CbRange(l[2 * q - 1])), LAMBDA r :
              addDfaEdge(r.b, v, [Kind |-> KClass, Dst |-> r.id, R |-> 0, A |-> {},
                                 Lim |-> <<l[2 * q - 1], l[2 * q]>>])),
          b, j, Len(l) \div 2)

(* A faulty variant of addWildEdge: no edge to the node of no return.      *)
addWildEdgeLiveOnlyFault(b, v) ==
  LET r == getKind(b, v)
  IN IF r.id = -1 THEN r.b
     ELSE addDfaEdge(r.b, v, [Kind |-> KWild, Dst |-> r.id, R |-> 0, A |-> {}, Lim |-> <<>>])

addWildEdge(b, v) ==
  LET r == getKind(b, v)
  IN addDfaEdge(r.b, v, [Kind |-> KWild, Dst |-> r.id, R |-> 0, A |-> {}, Lim |-> <<>>])

(* A faulty variant of nextTodo: the node found first is taken.            *)
nextTodoFirstFault(b) == [b |-> [b EXCEPT !.todo = Tail(@)], v |-> Head(b.todo)]

nextTodo(b) == [b |-> [b EXCEPT !.todo = SubSeq(@, 1, Len(@) - 1)], v |-> b.todo[Len(b.todo)]]

(* One pass of the loop of BuildDfa: the edges of the node taken from      *)
(* todo.                                                                   *)
dfaIter(b, keys) ==
  LET t == nextTodo(b)
      ed == getDfaEdges(t.b, t.v, keys)
      b1 == addAssertEdges(t.b, t.v, ed.allAsserts, 1)
      b2 == addRuneEdges(b1, t.v, ed.alphabet, 1)
      b3 == addClassEdges(b2, t.v, ed.l, 1)
  IN addWildEdge(b3, t.v)

(* The loop, with the keys of the map in one of the orders its range may   *)
(* give them.                                                              *)
dfaLoop(b) ==
  whileLoop(LAMBDA c : dfaIter(c, SetToSortedSeq(alphabetKeys(c, c.todo[Len(c.todo)]))),
            LAMBDA c : c.todo = <<>>, b)

(* The builder after constructAllNilList, constructEndNode and the get of  *)
(* the start state.                                                        *)
dfaStart(nfa) ==
  LET allNil == constructAllNilList(nfa)
      b0 == [nfa |-> nfa, allNilNodes |-> allNil,
             tab |-> constructEndNode(nfa, allNil), todo |-> <<>>, nodes |-> <<>>]
  IN get(b0, setToSt(nfa, <<0>>, nfAccepting)).b

BuildDfa(nfa) == dfaLoop(dfaStart(nfa)).nodes

----------------------------------------------------------------------------
(* The rule trees (parser.NexProgram) the scanner is driven with.  A rule  *)
(* is [Id, Regex, Children]; Id is the parser's character offset, which    *)
(* grows in source order; the root has Id 0 and no regex.                  *)

Rule(id, re, kids) == [Id |-> id, Regex |-> re, Children |-> kids]

(* The runes of the regexes and inputs: 'a' to 'f', 'o' and the newline.   *)
Runes == [a |-> 97, b |-> 98, c |-> 99, d |-> 100, e |-> 101, f |-> 102, o |-> 111, nl |-> 10]

(* /(foo)*/                                                                *)
ProgFoo == Rule(0, EmptyMatch, <<Rule(9, Star(Capture(Lit(<<Runes.f, Runes.o, Runes.o>>))), <<>>)>>)

(* /^/ then /$/                                                            *)
ProgBeginEnd == Rule(0, EmptyMatch, <<Rule(4, BeginText, <<>>), Rule(30, EndText, <<>>)>>)

(* /$/ then /^/                                                            *)
ProgEndBegin == Rule(0, EmptyMatch, <<Rule(4, EndText, <<>>), Rule(28, BeginText, <<>>)>>)

(* /^$/ then /^/ then /$/                                                  *)
ProgBoth ==
  Rule(0, EmptyMatch, <<Rule(5, Concat(<<BeginText, EndText>>), <<>>),
                        Rule(30, BeginText, <<>>), Rule(56, EndText, <<>>)>>)

(* /a?/ then /^/                                                           *)
ProgQuest == Rule(0, EmptyMatch, <<Rule(5, Quest(Lit(<<Runes.a>>)), <<>>), Rule(20, BeginText, <<>>)>>)

(* /a*/ then /^/                                                           *)
ProgStar == Rule(0, EmptyMatch, <<Rule(5, Star(Lit(<<Runes.a>>)), <<>>), Rule(20, BeginText, <<>>)>>)

(* /ab/ then /[a-b]+/ then /\n$/: longest match and ties                   *)
ProgPrec ==
  Rule(0, EmptyMatch, <<Rule(5, Lit(<<Runes.a, Runes.b>>), <<>>),
                        Rule(20, Plus(Class(<<Runes.a, Runes.b>>)), <<>>),
                        Rule(40, Concat(<<Lit(<<Runes.nl>>), EndText>>), <<>>)>>)

(* /aab/ then /a/ then /\n/: a partial match must not eat what follows     *)
ProgPartial ==
  Rule(0, EmptyMatch, <<Rule(6, Lit(<<Runes.a, Runes.a, Runes.b>>), <<>>),
                        Rule(20, Lit(<<Runes.a>>), <<>>),
                        Rule(34, Lit(<<Runes.nl>>), <<>>)>>)

(* /a[a-b]*/ < /a/ ; /b+/ < /b/ ; /$/ > ; /^/ > ; /./ : two nested scopes  *)
ProgNest ==
  Rule(0, EmptyMatch,
       <<Rule(10, Concat(<<Lit(<<Runes.a>>), Star(Class(<<Runes.a, Runes.b>>))>>),
              <<Rule(20, Lit(<<Runes.a>>), <<>>),
                Rule(30, Plus(Lit(<<Runes.b>>)),
                     <<Rule(40, Lit(<<Runes.b>>), <<>>), Rule(50, EndText, <<>>)>>),
                Rule(60, BeginText, <<>>)>>),
         Rule(70, AnyChar, <<>>)>>)

Programs == <<ProgFoo, ProgBeginEnd, ProgEndBegin, ProgBoth, ProgQuest, ProgStar,
              ProgPrec, ProgPartial, ProgNest>>

(* The runes the inputs of each program are drawn from, and the longest    *)
(* input; one longer input is added for /(foo)*/.                          *)
MaxLen == 3

Alphabet ==
  <<{Runes.f, Runes.o}, {Runes.a}, {Runes.a}, {Runes.a, Runes.nl}, {Runes.a, Runes.b}, {Runes.a, Runes.b}, {Runes.a, Runes.b, Runes.nl}, {Runes.a, Runes.b, Runes.nl}, {Runes.a, Runes.b, Runes.nl}>>

FooFoo == <<Runes.f, Runes.o, Runes.o, Runes.f, Runes.o, Runes.o>>

Inputs(p) == SeqsUpTo(Alphabet[p], MaxLen) \cup (IF p = 1 THEN {FooFoo} ELSE {})

(* The scopes of a program: the rules with children, by Id.                *)
RECURSIVE RulesOf(_)
RulesOf(rule) ==
  {rule} \cup UNION {RulesOf(rule.Children[k]) : k \in 1..Len(rule.Children)}

ScopeIds(p) == {r.Id : r \in {x \in RulesOf(Programs[p]) : x.Children # <<>>}}

RuleById(p, id) == CHOOSE r \in RulesOf(Programs[p]) : r.Id = id

(* The DFA parser.genGraphs gives the scope of rule id: the NFA of its     *)
(* children, then the DFA of that NFA.                                     *)
ScopeDfa(p, id) == BuildDfa(BuildNfa(RuleById(p, id).Children))


----------------------------------------------------------------------------
(* The state of a generated lexer at run time.                             *)

VARIABLES
  ver,        \* the runtime the lexer was generated with
  prog,       \* index of the rule tree the lexer was generated from
  input,      \* the runes the reader delivers
  programDfa, \* the DFA of every scope of the program, by the id of its rule
  stk,        \* the scanners of the running scan calls, outermost first
  rpc,        \* position of the goroutine: "rootStart", "scan", "rootEnd", "done"
  cancelled,  \* ctx.Err() != nil; in ver 10, Stop has been called
  chStop,     \* the tokens in the stop channel of ver 10
  closed,     \* the channel is closed
  cpc,        \* the caller: "user" (its own code), "recv" (blocked in <-ch), "done"
  curFrame,   \* the frame the caller holds
  lstack,     \* Lexer.stack of the runtime with the frame stack
  lvl,        \* the nesting level of the loop of Lex the caller is in
  lex,        \* the generated Lex of the frame-stack runtime: position, stale, code log
  bld,        \* a run of the DFA builder: the rules, the NFA, the builder, the DFA
  psr,        \* a run of the parser: the source, the position, the rules read
  sent,       \* every frame handed over the channel, in order
  pieces,     \* top-level match texts and skipped runes, in order
  acts        \* the frames the caller has started to run code for, in order

vars == <<ver, prog, bld, psr, lex, input, programDfa, stk, rpc, cancelled, chStop, closed, cpc, curFrame, lstack, lvl,
          sent, pieces, acts>>

----------------------------------------------------------------------------
(* The state table the emitter writes for a DFA node (type state of the    *)
(* lexer): accept, assertMask, assertStep and runeStep.                    *)

EdgesOfKind(n, kind) == SelectSeq(n.E, LAMBDA e : e.Kind = kind)

HasAssertStep(n) == EdgesOfKind(n, KAssert) # <<>>

HasRuneStep(n) ==
  EdgesOfKind(n, KRune) # <<>> \/ EdgesOfKind(n, KClass) # <<>> \/ EdgesOfKind(n, KWild) # <<>>

assertMask(n) == UNION {e.A : e \in Range(EdgesOfKind(n, KAssert))}

assertStep(n, a) ==
  LET es == SelectSeq(n.E, LAMBDA e : e.Kind = KAssert /\ e.A = a)
  IN IF es = <<>> THEN -1 ELSE es[1].Dst

(* Singles are probed first, then the ranges, then wild.                   *)
runeStep(n, r) ==
  LET rs == SelectSeq(n.E, LAMBDA e : e.Kind = KRune /\ e.R = r)
      cs == SelectSeq(n.E, LAMBDA e : e.Kind = KClass /\ inClass(e.Lim, r))
      ws == EdgesOfKind(n, KWild)
  IN IF rs # <<>> THEN rs[1].Dst
     ELSE IF cs # <<>> THEN cs[1].Dst
     ELSE IF ws # <<>> THEN ws[1].Dst
     ELSE -1

----------------------------------------------------------------------------
(* The runtime scanner of the generated lexer (type scanner).  A scanner   *)
(* is a record; in is what the reader has not delivered yet and inNil says *)
(* that s.in is nil.  st, madeProgress and text are the locals of scan,    *)
(* pc its position.                                                        *)

kStartCode == 0
kEndCode == 1

aStartText == AStartText
aEndText == AEndText
aStartLine == AStartLine
aEndLine == AEndLine
aWordBoundary == AWordBoundary
aNoWordBoundary == ANoWordBoundary

NewScanner(dfa, in, inNil, runes, line, column) ==
  [dfa |-> dfa, in |-> in, inNil |-> inNil, runes |-> runes, asserts |-> <<>>,
   pos |-> 0, consumedAssert |-> FALSE, minCapture |-> 0,
   matchPos |-> 0, matchAccept |-> 0, line |-> line, column |-> column,
   st |-> 0, madeProgress |-> FALSE, text |-> <<>>, pc |-> "loop"]

loadNextRune(s) ==
  IF s.pos < Len(s.runes) \/ s.inNil THEN s
  ELSE IF s.in # <<>> THEN [s EXCEPT !.runes = Append(@, Head(s.in)), !.in = Tail(@)]
  ELSE [s EXCEPT !.inNil = TRUE]

isWord(r) == (r >= 97 /\ r <= 122) \/ (r >= 65 /\ r <= 90) \/ (r >= 48 /\ r <= 57)

loadNextAsserts(s) ==
  IF s.pos < Len(s.asserts) THEN s
  ELSE LET r1 == IF s.pos = 0 THEN 0 ELSE s.runes[s.pos]
           r2 == IF s.pos = Len(s.runes) THEN 0 ELSE s.runes[s.pos + 1]
           a == (IF s.pos = 0 THEN aStartText \cup aStartLine ELSE {})
                \cup (IF s.pos = Len(s.runes) THEN aEndText \cup aEndLine ELSE {})
                \cup (IF r1 = 10 THEN aStartLine ELSE {})
                \cup (IF r2 = 10 THEN aEndLine ELSE {})
                \cup (IF isWord(r1) # isWord(r2) THEN aWordBoundary ELSE aNoWordBoundary)
       IN [s EXCEPT !.asserts = Append(@, a)]

loadNext(s) == loadNextAsserts(loadNextRune(s))

consumeRune(s) ==
  LET s1 == loadNext(s)
  IN IF s1.pos = Len(s1.runes) THEN [s |-> s1, r |-> 0, ok |-> FALSE]
     ELSE [s |-> [s1 EXCEPT !.pos = @ + 1, !.consumedAssert = FALSE],
           r |-> s1.runes[s1.pos + 1], ok |-> TRUE]

(* A faulty variant of consumeAsserts: the mask of a place is handed out   *)
(* again after a transition was taken on it.                               *)
consumeAssertsAgainFault(s, mask) ==
  LET s1 == loadNext(s)
  IN IF s1.pos = Len(s1.asserts) THEN [s |-> s1, a |-> {}]
     ELSE [s |-> [s1 EXCEPT !.consumedAssert = TRUE], a |-> s1.asserts[s1.pos + 1] \cap mask]

consumeAsserts(s, mask) ==
  LET s1 == loadNext(s)
  IN IF s1.consumedAssert \/ s1.pos = Len(s1.asserts) THEN [s |-> s1, a |-> {}]
     ELSE [s |-> [s1 EXCEPT !.consumedAssert = TRUE], a |-> s1.asserts[s1.pos + 1] \cap mask]

States(p, s) == programDfa[s.dfa]

(* A faulty variant of checkAccept: the match is said to end one rune      *)
(* after the cursor.                                                       *)
checkAcceptNextPosFault(p, s, st) ==
  IF st < 0 THEN s
  ELSE LET accIndex == Node(States(p, s), st).Accept
       IN IF accIndex > 0 /\ (s.matchPos < s.pos \/ accIndex < s.matchAccept)
          THEN [s EXCEPT !.matchAccept = accIndex, !.matchPos = s.pos + 1]
          ELSE s

checkAccept(p, s, st) ==
  IF st < 0 THEN s
  ELSE LET accIndex == Node(States(p, s), st).Accept
       IN IF accIndex > 0 /\ (s.matchPos < s.pos \/ accIndex < s.matchAccept)
          THEN [s EXCEPT !.matchAccept = accIndex, !.matchPos = s.pos]
          ELSE s

(* A faulty variant of countRunes: the column is not reset at a newline.   *)
RECURSIVE countRunesNoResetFault(_, _)
countRunesNoResetFault(s, rs) ==
  IF rs = <<>> THEN s
  ELSE countRunesNoResetFault(IF Head(rs) = 10 THEN [s EXCEPT !.line = @ + 1, !.column = @ + 1]
                              ELSE [s EXCEPT !.column = @ + 1], Tail(rs))

(* The column and line after the runes rs have been counted.               *)
RECURSIVE countRunes(_, _)
countRunes(s, rs) ==
  IF rs = <<>> THEN s
  ELSE countRunes(IF Head(rs) = 10 THEN [s EXCEPT !.line = @ + 1, !.column = 0]
                  ELSE [s EXCEPT !.column = @ + 1], Tail(rs))

RECURSIVE resetConsume(_, _)
resetConsume(s, i) ==
  IF s.pos <= i
  THEN LET c == consumeRune(s) IN IF c.ok THEN resetConsume(c.s, i) ELSE c.s
  ELSE s

(* Faulty variants of resetBuffer: minCapture is always reset to 0; the    *)
(* runes read ahead are dropped with the runes shifted out.                *)
resetBufferMinFault(s, i) ==
  LET s1 == resetConsume(s, i)
      s2 == countRunes(s1, SubSeq(s1.runes, 1, i))
  IN [s2 EXCEPT !.runes = SubSeq(@, i + 1, Len(@)),
                !.asserts = SubSeq(@, i + 1, Len(@)),
                !.pos = 0,
                !.consumedAssert = FALSE,
                !.minCapture = 0]

resetBufferDropFault(s, i) ==
  LET s1 == resetConsume(s, i)
      s2 == countRunes(s1, SubSeq(s1.runes, 1, i))
  IN [s2 EXCEPT !.runes = SubSeq(@, Max2(i, s1.pos) + 1, Len(@)),
                !.asserts = <<>>,
                !.pos = 0,
                !.consumedAssert = FALSE,
                !.minCapture = IF i = 0 THEN 1 ELSE 0]

(* A faulty variant of resetBuffer: the masks are not kept over the shift.  *)
resetBufferAssertsFault(s, i) ==
  LET s1 == resetConsume(s, i)
      s2 == countRunes(s1, SubSeq(s1.runes, 1, i))
  IN [s2 EXCEPT !.runes = SubSeq(@, i + 1, Len(@)),
                !.asserts = <<>>,
                !.pos = 0,
                !.consumedAssert = FALSE,
                !.minCapture = IF i = 0 THEN 1 ELSE 0]

resetBuffer(s, i) ==
  LET s1 == resetConsume(s, i)
      s2 == countRunes(s1, SubSeq(s1.runes, 1, i))
  IN [s2 EXCEPT !.runes = SubSeq(@, i + 1, Len(@)),
                !.asserts = SubSeq(@, i + 1, Len(@)),
                !.pos = 0,
                !.consumedAssert = FALSE,
                !.minCapture = IF i = 0 THEN 1 ELSE 0]

(* One pass through the body of the inner loop of Lexer.scan: the assert   *)
(* transition, then the rune transition.                                   *)
scanAssertStep(p, s) ==
  LET n == Node(States(p, s), s.st)
  IN IF ~HasAssertStep(n) THEN s
     ELSE LET c == consumeAsserts(s, assertMask(n))
          IN IF c.a = {} THEN c.s
             ELSE LET st == assertStep(n, c.a)
                  IN [checkAccept(p, c.s, st) EXCEPT !.st = st, !.madeProgress = TRUE]

scanRuneStep(p, s) ==
  LET n == Node(States(p, s), s.st)
  IN IF ~HasRuneStep(n) THEN s
     ELSE LET c == consumeRune(s)
          IN IF ~c.ok THEN c.s
             ELSE LET st == runeStep(n, c.r)
                  IN [checkAccept(p, c.s, st) EXCEPT !.st = st, !.madeProgress = TRUE]

scanInner(p, s) ==
  LET s1 == scanAssertStep(p, [s EXCEPT !.madeProgress = FALSE])
  IN IF s1.st < 0 THEN s1 ELSE scanRuneStep(p, s1)

(* scanner.getNest: the scanner of the nested scope of rule st, if any.    *)
HasNest(p, st) == st \in ScopeIds(p)

(* A faulty variant of getNest: the nested scanner is given its parent's   *)
(* reader.                                                                 *)
getNestReaderFault(s, st, text) == NewScanner(st, s.in, s.inNil, text, s.line, s.column)

getNest(s, st, text) == NewScanner(st, <<>>, TRUE, text, s.line, s.column)

----------------------------------------------------------------------------
(* scanner.resetBuffer and the inner loop of scanner.scan as the runtime   *)
(* with the frame stack has them: the buffer is shifted after one loadNext,*)
(* and the rune transition indexes the state table whatever the assert     *)
(* transition returned.                                                    *)

(* A faulty variant of resetBuffer of the runtime with the frame stack:    *)
(* minCapture is always reset to 0.                                        *)
resetBuffer12MinFault(s, i) ==
  LET s1 == countRunes(s, SubSeq(s.runes, 1, i))
      s2 == loadNext(s1)
  IN [s2 EXCEPT !.runes = SubSeq(@, i + 1, Len(@)),
                !.asserts = SubSeq(@, i + 1, Len(@)),
                !.pos = 0,
                !.consumedAssert = FALSE,
                !.minCapture = 0]

resetBuffer12(s, i) ==
  LET s1 == countRunes(s, SubSeq(s.runes, 1, i))
      s2 == loadNext(s1)
  IN [s2 EXCEPT !.runes = SubSeq(@, i + 1, Len(@)),
                !.asserts = SubSeq(@, i + 1, Len(@)),
                !.pos = 0,
                !.consumedAssert = FALSE,
                !.minCapture = IF i = 0 THEN 1 ELSE 0]

scanInner12(p, s) ==
  LET s1 == scanAssertStep(p, [s EXCEPT !.madeProgress = FALSE])
  IN IF s1.st < 0 THEN [s1 EXCEPT !.pc = "panic"] ELSE scanRuneStep(p, s1)

----------------------------------------------------------------------------
(* The lexer at run time: the scanner goroutine (scanRoot, scan and the    *)
(* scanners of the nested scans, innermost last in stk), the unbuffered    *)
(* channel, the context, and the caller of Lex.  Two runtimes are          *)
(* modelled: ver = 11 sends a start frame and an end frame for every match *)
(* and closes the channel; ver = 12 sends one frame for every match and a  *)
(* frame of state -1 at the end of every scan, and its caller keeps a      *)
(* stack of frames.                                                        *)

Versions == {11, 12}

NoFrame == [kind |-> -1, state |-> -1, text |-> <<>>, line |-> 0, column |-> 0]

(* No run of the DFA builder, no run of the parser.                        *)
NoBuild == [phase |-> "none"]

NoParse == [phase |-> "none"]

(* The generated Lex before it is modelled step by step.                   *)
NoLex == [pc |-> "none", stale |-> FALSE, log |-> <<>>, rets |-> {}, result |-> -1]

Top == stk[Len(stk)]

SetTop(s) == [stk EXCEPT ![Len(stk)] = s]

(* The whole input of the scanner at depth d, the offset in it of the      *)
(* first rune of its buffer, and the offset of the innermost scanner's     *)
(* buffer in the input of the root.                                        *)
ScannerInput(d) == IF d = 1 THEN input ELSE stk[d - 1].text

Cursor(d) == Len(ScannerInput(d)) - Len(stk[d].runes) - Len(stk[d].in)

RECURSIVE SumCursor(_)
SumCursor(d) == IF d = 0 THEN 0 ELSE Cursor(d) + SumCursor(d - 1)

AbsCursor == SumCursor(Len(stk))

Init ==
  /\ ver \in Versions
  /\ prog \in DOMAIN Programs
  /\ programDfa = [id \in ScopeIds(prog) |-> ScopeDfa(prog, id)]
  /\ input \in Inputs(prog)
  /\ stk = IF ver = 11 THEN <<>> ELSE <<NewScanner(0, input, FALSE, <<>>, 0, 0)>>
  /\ rpc = IF ver = 11 THEN "rootStart" ELSE "scan"
  /\ cancelled = FALSE
  /\ chStop = 0
  /\ closed = FALSE
  /\ cpc = "user"
  /\ lex = NoLex
  /\ curFrame = NoFrame
  /\ bld = NoBuild
  /\ psr = NoParse
  /\ lstack = <<>>
  /\ lvl = 0
  /\ sent = <<>>
  /\ pieces = <<>>
  /\ acts = <<>>

(* A faulty variant of NextPc: the nested scan runs after the end frame.   *)
NextPcNestLastFault(v, pc) ==
  CASE pc = "start" -> IF v = 11 THEN "end" ELSE "nest"
    [] pc = "end" -> "nest"
    [] pc = "nest" -> "reset"

(* The order of the steps scan takes for a match.                          *)
NextPc(v, pc) ==
  CASE pc = "start" -> "nest"
    [] pc = "nest" -> IF v = 11 THEN "end" ELSE "reset"
    [] pc = "end" -> "reset"

(* A scan call returns: to the scan that called it, or to the goroutine's  *)
(* entry function.                                                         *)
ScanReturn ==
  IF Len(stk) = 1
  THEN stk' = <<>> /\ rpc' = (IF ver = 11 THEN "rootEnd" ELSE "done")
  ELSE /\ stk' = [SubSeq(stk, 1, Len(stk) - 1) EXCEPT ![Len(stk) - 1].pc = NextPc(ver, "nest")]
       /\ rpc' = rpc

(* A faulty variant of ScanExit: no runtime sends a last frame of its own. *)
ScanExitNoFrameFault == ScanReturn

(* The outer loop of scan is left: ver 11 returns, ver 12 sends the frame  *)
(* of state -1 first.                                                      *)
ScanExit ==
  IF ver = 11 THEN ScanReturn
  ELSE stk' = SetTop([Top EXCEPT !.pc = "sentinel"]) /\ rpc' = rpc

(* appendFrame: the select of the send and ctx.Done().                     *)
AtSend ==
  \/ stk = <<>> /\ rpc \in {"rootStart", "rootEnd"}
  \/ stk # <<>> /\ Top.pc \in {"start", "end", "sentinel"}

FrameToSend ==
  IF ver = 11
  THEN IF stk = <<>>
       THEN [kind |-> IF rpc = "rootStart" THEN kStartCode ELSE kEndCode,
             state |-> 0, text |-> <<>>, line |-> 0, column |-> 0]
       ELSE [kind |-> IF Top.pc = "start" THEN kStartCode ELSE kEndCode,
             state |-> Top.matchAccept, text |-> Top.text,
             line |-> Top.line, column |-> Top.column]
  ELSE IF Top.pc = "sentinel"
       THEN [state |-> -1, text |-> <<>>, line |-> Top.line, column |-> Top.column]
       ELSE [state |-> Top.matchAccept, text |-> Top.text,
             line |-> Top.line, column |-> Top.column]

AfterAppendFrame ==
  IF stk = <<>>
  THEN IF rpc = "rootStart"
       THEN /\ stk' = <<NewScanner(0, input, FALSE, <<>>, 0, 0)>>
            /\ rpc' = "scan"
            /\ closed' = closed
       ELSE /\ stk' = stk
            /\ rpc' = "done"
            /\ closed' = TRUE
  ELSE /\ IF Top.pc = "sentinel" THEN ScanReturn
          ELSE stk' = SetTop([Top EXCEPT !.pc = NextPc(ver, Top.pc)]) /\ rpc' = rpc
       /\ closed' = closed

(* The rules of the scope whose loop the caller is in (ver 12).            *)
CallerScope == IF lvl = 0 THEN 0 ELSE lstack[lvl].state

IsKid(scope, id) ==
  \E k \in 1..Len(RuleById(prog, scope).Children) : RuleById(prog, scope).Children[k].Id = id

(* The caller takes frame f from the channel.  In ver 11 it holds the      *)
(* frame and runs the code of its key.  In ver 12 next(lvl) stores it in   *)
(* the stack and the switch of Lex runs the rule's code, enters the loop   *)
(* of a nested scope, or leaves the loop and pops.                         *)
Receive(f) ==
  IF ver = 11
  THEN /\ curFrame' = f
       /\ cpc' = "user"
       /\ acts' = Append(acts, f)
       /\ UNCHANGED <<lstack, lvl>>
  ELSE IF IsKid(CallerScope, f.state)
       THEN /\ lstack' = [lstack EXCEPT ![lvl + 1] = f]
            /\ lvl' = IF HasNest(prog, f.state) THEN lvl + 1 ELSE lvl
            /\ curFrame' = f
            /\ cpc' = "user"
            /\ acts' = Append(acts, f)
       ELSE /\ lstack' = SubSeq(lstack, 1, lvl)
            /\ lvl' = IF lvl = 0 THEN 0 ELSE lvl - 1
            /\ curFrame' = IF lvl = 0 THEN NoFrame ELSE lstack[lvl]
            /\ cpc' = IF lvl = 0 THEN "done" ELSE "user"
            /\ acts' = acts

(* A faulty variant of appendFrameSend: the channel has a buffer, the send *)
(* does not wait for the receive.                                          *)
appendFrameSendBufferedFault ==
  /\ AtSend
  /\ cpc # "done"
  /\ AfterAppendFrame
  /\ Receive(FrameToSend)
  /\ sent' = Append(sent, [frame |-> FrameToSend, depth |-> Len(stk), off |-> AbsCursor])
  /\ UNCHANGED <<ver, prog, bld, psr, lex, chStop, input, programDfa, cancelled, pieces>>

appendFrameSend ==
  /\ AtSend
  /\ cpc = "recv"
  /\ AfterAppendFrame
  /\ Receive(FrameToSend)
  /\ sent' = Append(sent, [frame |-> FrameToSend, depth |-> Len(stk), off |-> AbsCursor])
  /\ UNCHANGED <<ver, prog, bld, psr, lex, chStop, input, programDfa, cancelled, pieces>>

appendFrameDone ==
  /\ AtSend
  /\ cancelled
  /\ AfterAppendFrame
  /\ UNCHANGED <<ver, prog, bld, psr, lex, chStop, input, programDfa, cancelled, cpc, curFrame, lstack, lvl, sent, pieces, acts>>

(* scan, the head of the outer loop.                                       *)
ScanLoop ==
  /\ stk # <<>> /\ Top.pc = "loop"
  /\ IF cancelled
     THEN ScanExit
     ELSE /\ stk' = SetTop([Top EXCEPT !.st = 0, !.matchPos = -1, !.matchAccept = -1,
                                       !.madeProgress = TRUE, !.pc = "inner"])
          /\ rpc' = rpc
  /\ UNCHANGED <<ver, prog, bld, psr, lex, chStop, input, programDfa, cancelled, closed, cpc, curFrame, lstack, lvl,
                 sent, pieces, acts>>

(* scan, one pass of the inner loop.                                       *)
ScanInner ==
  /\ stk # <<>> /\ Top.pc = "inner"
  /\ LET s == IF ver = 11 THEN scanInner(prog, Top) ELSE scanInner12(prog, Top)
     IN stk' = SetTop([s EXCEPT !.pc = IF s.pc = "panic" THEN "panic"
                                       ELSE IF s.madeProgress /\ s.st >= 0 THEN "inner"
                                       ELSE "stuck"])
  /\ UNCHANGED <<ver, prog, bld, psr, lex, chStop, input, programDfa, rpc, cancelled, closed, cpc, curFrame, lstack, lvl,
                 sent, pieces, acts>>

(* A faulty variant of ScanStuck: with no match, every rune the attempt    *)
(* has consumed is dropped.                                                *)
ScanStuckSkipFault ==
  /\ stk # <<>> /\ Top.pc = "stuck"
  /\ IF Top.matchPos < Top.minCapture
     THEN IF Len(Top.runes) = 0
          THEN ScanExit /\ pieces' = pieces
          ELSE /\ stk' = SetTop([(IF ver = 11 THEN resetBuffer(Top, Max2(1, Top.pos))
                                  ELSE resetBuffer12(Top, Max2(1, Top.pos))) EXCEPT !.pc = "loop"])
               /\ rpc' = rpc
               /\ pieces' = IF Len(stk) = 1 THEN Append(pieces, <<Top.runes[1]>>) ELSE pieces
     ELSE /\ stk' = SetTop([Top EXCEPT !.text = SubSeq(Top.runes, 1, Top.matchPos),
                                       !.pc = "start"])
          /\ rpc' = rpc
          /\ pieces' = IF Len(stk) = 1
                       THEN Append(pieces, SubSeq(Top.runes, 1, Top.matchPos)) ELSE pieces
  /\ UNCHANGED <<ver, prog, bld, psr, lex, chStop, input, programDfa, cancelled, closed, cpc, curFrame, lstack, lvl, sent, acts>>

(* scan, the DFA is stuck: no match (the scan ends, or one rune is         *)
(* dropped), or a match to send.                                           *)
ScanStuck ==
  /\ stk # <<>> /\ Top.pc = "stuck"
  /\ IF Top.matchPos < Top.minCapture
     THEN IF Len(Top.runes) = 0
          THEN ScanExit /\ pieces' = pieces
          ELSE /\ stk' = SetTop([(IF ver = 11 THEN resetBuffer(Top, 1)
                                  ELSE resetBuffer12(Top, 1)) EXCEPT !.pc = "loop"])
               /\ rpc' = rpc
               /\ pieces' = IF Len(stk) = 1 THEN Append(pieces, <<Top.runes[1]>>) ELSE pieces
     ELSE /\ stk' = SetTop([Top EXCEPT !.text = SubSeq(Top.runes, 1, Top.matchPos),
                                       !.pc = "start"])
          /\ rpc' = rpc
          /\ pieces' = IF Len(stk) = 1
                       THEN Append(pieces, SubSeq(Top.runes, 1, Top.matchPos)) ELSE pieces
  /\ UNCHANGED <<ver, prog, bld, psr, lex, chStop, input, programDfa, cancelled, closed, cpc, curFrame, lstack, lvl, sent, acts>>

(* scan, after the frame of a match: the nested scan.                      *)
ScanNest ==
  /\ stk # <<>> /\ Top.pc = "nest"
  /\ IF HasNest(prog, Top.matchAccept)
     THEN stk' = Append(stk, getNest(Top, Top.matchAccept, Top.text))
     ELSE stk' = SetTop([Top EXCEPT !.pc = NextPc(ver, "nest")])
  /\ UNCHANGED <<ver, prog, bld, psr, lex, chStop, input, programDfa, rpc, cancelled, closed, cpc, curFrame, lstack, lvl,
                 sent, pieces, acts>>

(* scan, the match is shifted out of the buffer.                           *)
ScanReset ==
  /\ stk # <<>> /\ Top.pc = "reset"
  /\ stk' = SetTop([(IF ver = 11 THEN resetBuffer(Top, Top.matchPos)
                     ELSE resetBuffer12(Top, Top.matchPos)) EXCEPT !.pc = "loop"])
  /\ UNCHANGED <<ver, prog, bld, psr, lex, chStop, input, programDfa, rpc, cancelled, closed, cpc, curFrame, lstack, lvl,
                 sent, pieces, acts>>

(* The caller: it finishes the code it runs and receives again (in ver 12  *)
(* next(lvl) first pushes a frame for a level entered); a receive on the   *)
(* closed channel ends Lex; Stop cancels.                                  *)
CallNext ==
  /\ cpc = "user"
  /\ cpc' = "recv"
  /\ lstack' = IF ver = 12 /\ lvl = Len(lstack)
               THEN Append(lstack, [state |-> 0, text |-> <<>>,
                                    line |-> IF lvl > 0 THEN lstack[lvl].line ELSE 0,
                                    column |-> IF lvl > 0 THEN lstack[lvl].column ELSE 0])
               ELSE lstack
  /\ UNCHANGED <<ver, prog, bld, psr, lex, chStop, input, programDfa, stk, rpc, cancelled, closed, curFrame, lvl,
                 sent, pieces, acts>>

RecvClosed ==
  /\ cpc = "recv"
  /\ closed
  /\ cpc' = "done"
  /\ curFrame' = NoFrame
  /\ UNCHANGED <<ver, prog, bld, psr, lex, chStop, input, programDfa, stk, rpc, cancelled, closed, lstack, lvl,
                 sent, pieces, acts>>

Stop ==
  /\ ~cancelled
  /\ cancelled' = TRUE
  /\ UNCHANGED <<ver, prog, bld, psr, lex, chStop, input, programDfa, stk, rpc, closed, cpc, curFrame, lstack, lvl,
                 sent, pieces, acts>>

(* The steps the scanner goroutine takes without the caller.               *)
ScannerStep == ScanLoop \/ ScanInner \/ ScanStuck \/ ScanNest \/ ScanReset \/ appendFrameDone

Next ==
  \/ appendFrameSend
  \/ appendFrameDone
  \/ ScanLoop
  \/ ScanInner
  \/ ScanStuck
  \/ ScanNest
  \/ ScanReset
  \/ CallNext
  \/ RecvClosed
  \/ Stop

Spec == Init /\ [][Next]_vars

(* The goroutine is scheduled; nothing is assumed of the caller.           *)
FairSpec == Spec /\ WF_vars(ScannerStep)

(* Some step other than Stop can be taken: the goroutine is in its loop,   *)
(* or at a send the caller is ready for or the cancellation ends; the      *)
(* caller runs code, or waits on the closed channel.                       *)
ScanCanStep ==
  \/ stk # <<>> /\ Top.pc \in {"loop", "inner", "stuck", "nest", "reset"}
  \/ AtSend /\ (cpc = "recv" \/ cancelled)
  \/ cpc = "user"
  \/ cpc = "recv" /\ closed

(* The goroutine is scheduled and the caller goes on receiving: weak       *)
(* fairness of every step but Stop, with its ENABLED written out as        *)
(* ScanCanStep.                                                            *)
FairSpecScan ==
  Spec /\ ([]<>(~ScanCanStep) \/ []<><<cancelled' = cancelled>>_vars)

----------------------------------------------------------------------------
(* The generated Lex of the runtime with the frame stack, step by step.    *)
(* writeFamily(node, lvl) writes, for the root and for every rule with     *)
(* children:  if !yylex.stale { start code }; a loop over                  *)
(* switch yylex.next(lvl) with one case for every child (the loop of the   *)
(* child's scope, or the child's action) and a default that leaves the     *)
(* loop; yylex.pop(); end code.  Lex is that of the root and "return 0".   *)
(* The code the user wrote is logged as an event; the code of lex.rets     *)
(* returns from Lex with a non-zero value.                                 *)

LexProgs == {9}

LexAlphabet == {Runes.a, Runes.b}

Ev(k, id) == [k |-> k, id |-> id]

(* The actions of rules without children and the end code of nested        *)
(* scopes: the code that may hold a return statement.                      *)
CodesOf(p) ==
  {Ev(IF r.Children = <<>> THEN "act" ELSE "end", r.Id) : r \in RulesOf(Programs[p]) \ {Programs[p]}}

RetChoices(p) == {{}} \cup {{c} : c \in CodesOf(p)} \cup {CodesOf(p)}

InitLex ==
  /\ ver = 12
  /\ prog \in LexProgs
  /\ programDfa = [id \in ScopeIds(prog) |-> ScopeDfa(prog, id)]
  /\ input \in SeqsUpTo(LexAlphabet, MaxLen)
  /\ stk = <<NewScanner(0, input, FALSE, <<>>, 0, 0)>>
  /\ rpc = "scan"
  /\ cancelled = FALSE
  /\ chStop = 0
  /\ closed = FALSE
  /\ cpc = "user"
  /\ lex \in {[pc |-> "idle", stale |-> FALSE, log |-> <<>>, rets |-> rs, result |-> -1] :
                rs \in RetChoices(prog)}
  /\ curFrame = NoFrame
  /\ bld = NoBuild
  /\ psr = NoParse
  /\ lstack = <<>>
  /\ lvl = 0
  /\ sent = <<>>
  /\ pieces = <<>>
  /\ acts = <<>>

(* The head of writeFamily(node, l): the start code, unless stale.         *)
familyHead(lx, node) ==
  [lx EXCEPT !.pc = "next",
             !.log = IF lx.stale THEN lx.log ELSE Append(lx.log, Ev("start", node))]

(* The caller calls Lex, again after every non-zero return.                *)
LexCall ==
  /\ lex.pc = "idle"
  /\ lex.result # 0
  /\ lex' = familyHead(lex, 0)
  /\ lvl' = 0
  /\ UNCHANGED <<ver, prog, bld, psr, chStop, input, programDfa, stk, rpc, cancelled, closed, cpc, curFrame,
                 lstack, sent, pieces, acts>>

(* Lexer.next, the frame appended for a level entered.                     *)
nextPush(stack, l) ==
  IF l = Len(stack)
  THEN Append(stack, [state |-> 0, text |-> <<>>,
                      line |-> IF l > 0 THEN stack[l].line ELSE 0,
                      column |-> IF l > 0 THEN stack[l].column ELSE 0])
  ELSE stack

(* The switch of the loop of level l on the state x next(l) returned, with *)
(* the stack and the flag next(l) left.  A child with children: the head   *)
(* of its family one level down.  A child without: its action.  default:   *)
(* break, pop, the end code of the scope, and at the root "return 0".      *)
lexSwitch(lx, stack, l, x) ==
  LET scope == IF l = 0 THEN 0 ELSE stack[l].state IN
  IF IsKid(scope, x)
  THEN IF HasNest(prog, x)
       THEN [lex |-> familyHead(lx, x), lstack |-> stack, lvl |-> l + 1]
       ELSE [lex |-> [lx EXCEPT !.log = Append(lx.log, Ev("act", x)),
                                !.pc = IF Ev("act", x) \in lx.rets THEN "idle" ELSE "next",
                                !.result = IF Ev("act", x) \in lx.rets THEN 1 ELSE lx.result],
             lstack |-> stack, lvl |-> l]
  ELSE [lex |-> [lx EXCEPT !.log = Append(lx.log, Ev("end", scope)),
                           !.pc = IF l = 0 THEN "done"
                                  ELSE IF Ev("end", scope) \in lx.rets THEN "idle" ELSE "next",
                           !.result = IF l = 0 THEN 0
                                      ELSE IF Ev("end", scope) \in lx.rets THEN 2 ELSE lx.result],
        lstack |-> SubSeq(stack, 1, Len(stack) - 1),
        lvl |-> IF l = 0 THEN 0 ELSE l - 1]

(* Lexer.next(lvl) up to the receive: the level is the last of the stack   *)
(* and the caller blocks in <-ch, or the level is an outer one, the flag   *)
(* stale is set and the switch runs on the frame the stack holds.          *)
LexNext ==
  /\ lex.pc = "next"
  /\ cpc = "user"
  /\ LET stack == nextPush(lstack, lvl) IN
       IF lvl = Len(stack) - 1
       THEN /\ lstack' = stack
            /\ cpc' = "recv"
            /\ UNCHANGED <<lex, lvl>>
       ELSE LET r == lexSwitch([lex EXCEPT !.stale = TRUE], stack, lvl, stack[lvl + 1].state) IN
            /\ lex' = r.lex
            /\ lstack' = r.lstack
            /\ lvl' = r.lvl
            /\ cpc' = cpc
  /\ UNCHANGED <<ver, prog, bld, psr, chStop, input, programDfa, stk, rpc, cancelled, closed, curFrame,
                 sent, pieces, acts>>

(* appendFrame meets the receive of next(lvl): the frame is stored in the  *)
(* stack, stale is cleared, and the switch runs on its state.              *)
LexRecv ==
  /\ AtSend
  /\ lex.pc = "next"
  /\ cpc = "recv"
  /\ AfterAppendFrame
  /\ LET f == FrameToSend
         r == lexSwitch([lex EXCEPT !.stale = FALSE], [lstack EXCEPT ![lvl + 1] = f], lvl, f.state) IN
       /\ lex' = r.lex
       /\ lstack' = r.lstack
       /\ lvl' = r.lvl
       /\ cpc' = IF r.lex.pc = "done" THEN "done" ELSE "user"
       /\ acts' = IF IsKid(CallerScope, f.state) THEN Append(acts, f) ELSE acts
  /\ sent' = Append(sent, [frame |-> FrameToSend, depth |-> Len(stk), off |-> AbsCursor])
  /\ UNCHANGED <<ver, prog, bld, psr, chStop, input, programDfa, cancelled, curFrame, pieces>>

LexStep == LexCall \/ LexNext \/ LexRecv

NextLex ==
  \/ LexCall
  \/ LexNext
  \/ LexRecv
  \/ appendFrameDone
  \/ ScanLoop
  \/ ScanInner
  \/ ScanStuck
  \/ ScanNest
  \/ ScanReset
  \/ Stop

SpecLex == InitLex /\ [][NextLex]_vars

(* A step of the goroutine or of Lex is possible: the guards of            *)
(* ScannerStep and LexStep, written out.                                   *)
LexCanStep ==
  \/ lex.pc = "idle" /\ lex.result # 0
  \/ lex.pc = "next" /\ cpc = "user"
  \/ lex.pc = "next" /\ cpc = "recv" /\ AtSend

RunCanStep ==
  \/ AtSend /\ cancelled
  \/ stk # <<>> /\ Top.pc \in {"loop", "inner", "stuck", "nest", "reset"}
  \/ LexCanStep

(* The goroutine is scheduled and the caller goes on calling Lex: weak     *)
(* fairness of every step but Stop, WF_vars(ScannerStep \/ LexStep), with  *)
(* its ENABLED written out as RunCanStep.                                  *)
FairSpecLex ==
  SpecLex /\ ([]<>(~RunCanStep) \/ []<><<cancelled' = cancelled>>_vars)

----------------------------------------------------------------------------
(* A run of graph.BuildDfa on the NFA of a list of rules, pass by pass of  *)
(* its loop.  A range over a Go map gives the keys in any order: the keys  *)
(* of the map alphabet (getDfaEdges) and of the map tab (the last loop of  *)
(* BuildDfa) are taken in an order the step chooses.                       *)

MaxRules == 2

DfaAtoms ==
  {Lit(<<Runes.a>>), Lit(<<Runes.b>>), Lit(<<Runes.d>>),
   Class(<<Runes.a, Runes.c>>), Class(<<Runes.c, Runes.e>>),
   Class(<<Runes.b, Runes.b, Runes.d, Runes.e>>),
   AnyChar, BeginText, EndText,
   Plus(Class(<<Runes.a, Runes.b>>)),
   Concat(<<Lit(<<Runes.a>>), Lit(<<Runes.b>>)>>),
   Concat(<<Lit(<<Runes.a>>), EndText>>),
   Concat(<<Lit(<<Runes.a>>), WordB, EndText>>),
   Quest(Lit(<<Runes.a>>)),
   Alternate(<<Lit(<<Runes.a, Runes.d, Runes.d>>), Lit(<<Runes.d, Runes.b, Runes.a>>)>>)}

(* The rules of a scope: the k-th has id 10 * k.                           *)
DfaRuleSets ==
  {[k \in 1..Len(rs) |-> Rule(10 * k, rs[k], <<>>)] : rs \in SeqsUpTo(DfaAtoms, MaxRules) \ {<<>>}}

RECURSIVE Perms(_)
Perms(S) ==
  IF S = {} THEN {<<>>}
  ELSE UNION {{<<x>> \o q : q \in Perms(S \ {x})} : x \in S}

(* The keys of tab in the order of the ids, that order turned by k, and    *)
(* the reverse of it: orders a range over the map may give.                *)
RECURSIVE tabKeysById(_, _)
tabKeysById(tab, id) ==
  IF \A key \in DOMAIN tab : tab[key] < id THEN <<>>
  ELSE (IF \E key \in DOMAIN tab : tab[key] = id
        THEN <<CHOOSE key \in DOMAIN tab : tab[key] = id>> ELSE <<>>) \o tabKeysById(tab, id + 1)

Turn(sq, k) == SubSeq(sq, k + 1, Len(sq)) \o SubSeq(sq, 1, k)

Reverse(sq) == [i \in 1..Len(sq) |-> sq[Len(sq) + 1 - i]]

TabOrders(tab) ==
  LET sq == tabKeysById(tab, -1)
  IN {Turn(sq, k) : k \in 0..(Len(sq) - 1)} \cup {Reverse(sq)}

(* The last loop of BuildDfa: every node of tab but the node of id -1 is   *)
(* put at its id.                                                          *)
RECURSIVE placeSorted(_, _, _)
placeSorted(b, ord, sorted) ==
  IF ord = <<>> THEN sorted
  ELSE LET id == b.tab[Head(ord)]
       IN placeSorted(b, Tail(ord),
                      IF id # -1 THEN [sorted EXCEPT ![id + 1] = b.nodes[id + 1]] ELSE sorted)

NoNode == [E |-> <<>>, Accept |-> -1, Set |-> <<>>]

InitDfa ==
  /\ bld \in {[phase |-> "rules", rules |-> rs, nfa |-> <<>>, b |-> <<>>, dfa |-> <<>>] :
                rs \in DfaRuleSets}
  /\ psr = NoParse
  /\ lex = NoLex
  /\ ver = 0 /\ prog = 0 /\ programDfa = <<>> /\ input = <<>>
  /\ stk = <<>> /\ rpc = "done" /\ cancelled = FALSE /\ chStop = 0 /\ closed = FALSE
  /\ cpc = "done" /\ curFrame = NoFrame /\ lstack = <<>> /\ lvl = 0
  /\ sent = <<>> /\ pieces = <<>> /\ acts = <<>>

DfaRest ==
  UNCHANGED <<ver, prog, psr, lex, input, programDfa, stk, rpc, cancelled, chStop, closed, cpc,
              curFrame, lstack, lvl, sent, pieces, acts>>

(* BuildNfa, and BuildDfa up to its loop.                                  *)
DfaBegin ==
  /\ bld.phase = "rules"
  /\ LET nfa == BuildNfa(bld.rules)
     IN bld' = [bld EXCEPT !.phase = "loop", !.nfa = nfa, !.b = dfaStart(nfa)]
  /\ DfaRest

(* One pass of the loop of BuildDfa.                                       *)
DfaPass ==
  /\ bld.phase = "loop"
  /\ bld.b.todo # <<>>
  /\ \E keys \in Perms(alphabetKeys(bld.b, bld.b.todo[Len(bld.b.todo)])) :
       bld' = [bld EXCEPT !.b = dfaIter(bld.b, keys)]
  /\ DfaRest

(* The loop is left: the nodes are put in the order of their ids.          *)
DfaSorted ==
  /\ bld.phase = "loop"
  /\ bld.b.todo = <<>>
  /\ \E ord \in TabOrders(bld.b.tab) :
       bld' = [bld EXCEPT !.phase = "done",
                          !.dfa = placeSorted(bld.b, ord, [i \in 1..Len(bld.b.nodes) |-> NoNode])]
  /\ DfaRest

NextDfa == DfaBegin \/ DfaPass \/ DfaSorted

SpecDfa == InitDfa /\ [][NextDfa]_vars

----------------------------------------------------------------------------
(* The list of ranges of getDfaEdges on its own: from the empty list, the  *)
(* ranges of the class edges are put in one by one by appendLimits.  A     *)
(* range put in has lo < hi: getDfaEdges keeps the ranges of one rune for  *)
(* the singles.  ins is the sequence of the ranges put in so far.          *)
MaxInserts == 3

LimRunes == (Runes.a)..(Runes.e)

InitLimits ==
  /\ bld = [phase |-> "limits", l |-> <<>>, ins |-> <<>>]
  /\ psr = NoParse
  /\ lex = NoLex
  /\ ver = 0 /\ prog = 0 /\ programDfa = <<>> /\ input = <<>>
  /\ stk = <<>> /\ rpc = "done" /\ cancelled = FALSE /\ chStop = 0 /\ closed = FALSE
  /\ cpc = "done" /\ curFrame = NoFrame /\ lstack = <<>> /\ lvl = 0
  /\ sent = <<>> /\ pieces = <<>> /\ acts = <<>>

AppendLimits ==
  /\ bld.phase = "limits"
  /\ Len(bld.ins) < MaxInserts
  /\ \E r1, r2 \in LimRunes :
       /\ r1 < r2
       /\ bld' = [bld EXCEPT !.l = appendLimits(@, r1, r2), !.ins = Append(@, <<r1, r2>>)]
  /\ DfaRest

NextLimits == AppendLimits

SpecLimits == InitLimits /\ [][NextLimits]_vars

----------------------------------------------------------------------------
(* The masks of a scanner on its own: a scanner over a short input of      *)
(* letters, digits, the underscore and the space loads the rune and the    *)
(* mask of each place in turn, as consumeRune does, up to the end of the   *)
(* input.                                                                  *)
WordRunes == [a |-> 97, Z |-> 90, zero |-> 48, under |-> 95, sp |-> 32]

WordAlphabet == {WordRunes.a, WordRunes.Z, WordRunes.zero, WordRunes.under, WordRunes.sp}

InitAsserts ==
  /\ input \in SeqsUpTo(WordAlphabet, MaxLen)
  /\ stk = <<NewScanner(0, input, FALSE, <<>>, 0, 0)>>
  /\ bld = NoBuild
  /\ psr = NoParse
  /\ lex = NoLex
  /\ ver = 0 /\ prog = 0 /\ programDfa = <<>>
  /\ rpc = "done" /\ cancelled = FALSE /\ chStop = 0 /\ closed = FALSE
  /\ cpc = "done" /\ curFrame = NoFrame /\ lstack = <<>> /\ lvl = 0
  /\ sent = <<>> /\ pieces = <<>> /\ acts = <<>>

LoadMask ==
  /\ Len(stk) = 1
  /\ stk[1].pos = Len(stk[1].asserts)
  /\ stk' = <<consumeRune(stk[1]).s>>
  /\ UNCHANGED <<ver, prog, bld, psr, lex, input, programDfa, rpc, cancelled, chStop, closed, cpc,
                 curFrame, lstack, lvl, sent, pieces, acts>>

NextAsserts == LoadMask

SpecAsserts == InitAsserts /\ [][NextAsserts]_vars

----------------------------------------------------------------------------
(* The parser of Nex source (src/parser/parser.go).  The source is a       *)
(* sequence of runes; the parser p holds the reader (in and the offset off *)
(* of the next rune), the position line, col and char, the last rune r,    *)
(* the first error err, and the flags eof and isUnread.  An operator that  *)
(* the code writes as a method with a result gives a record of the parser  *)
(* after the call and the result.                                          *)

SrcRunes == [slash |-> 47, under |-> 95, bslash |-> 92, sp |-> 32, tab |-> 9, cr |-> 13,
             lt |-> 60, gt |-> 62, lbrace |-> 123, rbrace |-> 125, x |-> 120, star |-> 42,
             bel |-> 7]

NoErr == <<>>

ErrUnmatchedRBrace == "unmatched '}'"

ErrUnmatchedLBrace == "unmatched '{'"

ErrUnexpectedEOF == "unexpected EOF"

ErrUnexpectedNewline == "unexpected newline"

newParser(in) ==
  [in |-> in, off |-> 0, line |-> 1, col |-> 0, char |-> 0, r |-> 0, err |-> NoErr,
   eof |-> FALSE, isUnread |-> FALSE]

(* Only the first error is kept, with the line and the column it is at.    *)
reportError(p, err) ==
  IF p.err # NoErr THEN p ELSE [p EXCEPT !.err = <<p.line, p.col, err>>]

read(p) ==
  IF p.err # NoErr \/ p.eof THEN [p |-> p, ok |-> FALSE]
  ELSE IF p.isUnread THEN [p |-> [p EXCEPT !.isUnread = FALSE], ok |-> TRUE]
  ELSE IF p.off >= Len(p.in) THEN [p |-> [p EXCEPT !.eof = TRUE, !.r = 0], ok |-> FALSE]
  ELSE LET r == p.in[p.off + 1]
       IN [p |-> [p EXCEPT !.off = @ + 1, !.r = r, !.char = @ + 1,
                           !.line = IF r = Runes.nl THEN @ + 1 ELSE @,
                           !.col = IF r = Runes.nl THEN 0 ELSE @ + 1],
           ok |-> TRUE]

unread(p) == [p EXCEPT !.isUnread = TRUE]

isSpace(r) == r \in {SrcRunes.sp, Runes.nl, SrcRunes.tab, SrcRunes.cr}

readNextNonWs(p) ==
  whileLoop(LAMBDA rd : read(rd.p), LAMBDA rd : ~rd.ok \/ ~isSpace(rd.p.r), read(p))

mustRead(p) ==
  With(read(p), LAMBDA rd :
    IF ~rd.ok THEN [p |-> reportError(rd.p, ErrUnexpectedEOF), ok |-> FALSE] ELSE rd)

mustReadNextNonWs(p) ==
  With(readNextNonWs(p), LAMBDA rd :
    IF ~rd.ok THEN [p |-> reportError(rd.p, ErrUnexpectedEOF), ok |-> FALSE] ELSE rd)

trimLeft(buf) ==
  With(whileLoop(LAMBDA s : s + 1, LAMBDA s : ~(s < Len(buf) /\ isSpace(buf[s + 1])), 0),
       LAMBDA s : SubSeq(buf, s + 1, Len(buf)))

trimRight(buf) ==
  With(whileLoop(LAMBDA e : e - 1, LAMBDA e : ~(e > 0 /\ isSpace(buf[e])), Len(buf)),
       LAMBDA e : SubSeq(buf, 1, e))

trimSpaces(buf) == trimRight(trimLeft(buf))

(* The loop of readRemaining; first says that the next read is the first.  *)
(* The state of the loop is the parser p, the ok of its last read and buf. *)
readRemainingLoop(p, first, buf) ==
  With(IF first THEN readNextNonWs(p) ELSE read(p), LAMBDA rd0 :
    With(whileLoop(LAMBDA st : With(read(st.p), LAMBDA rd :
                                 [p |-> rd.p, ok |-> rd.ok, buf |-> Append(st.buf, st.p.r)]),
                   LAMBDA st : ~st.ok,
                   [p |-> rd0.p, ok |-> rd0.ok, buf |-> buf]), LAMBDA st :
      [p |-> st.p, buf |-> st.buf]))

readRemaining(p) ==
  With(readRemainingLoop(p, TRUE, <<>>), LAMBDA lp :
    [p |-> lp.p, s |-> Append(trimSpaces(lp.buf), Runes.nl)])

(* The loop of readCode; first says that the next read is the first, and   *)
(* ret that the loop was left by the return at the unmatched closing       *)
(* brace.                                                                  *)
(* The state of the loop is the parser p, the ok of its last read,         *)
(* nesting, buf and ret.                                                   *)
readCodeStep(st) ==
  With(IF st.p.r = SrcRunes.lbrace THEN st.nesting + 1
       ELSE IF st.p.r = SrcRunes.rbrace THEN st.nesting - 1
       ELSE st.nesting, LAMBDA n :
    IF n < 0
    THEN [p |-> reportError(st.p, ErrUnmatchedRBrace), ok |-> st.ok, nesting |-> n,
          buf |-> Append(st.buf, st.p.r), ret |-> TRUE]
    ELSE With(read(st.p), LAMBDA rd :
           [p |-> rd.p, ok |-> rd.ok, nesting |-> n, buf |-> Append(st.buf, st.p.r),
            ret |-> FALSE]))

readCodeLoop(p, first, nesting, buf) ==
  With(IF first THEN mustReadNextNonWs(p) ELSE read(p), LAMBDA rd0 :
    With(whileLoop(readCodeStep,
                   LAMBDA st : st.ret \/ ~(st.ok /\ (st.p.r # Runes.nl \/ st.nesting > 0)),
                   [p |-> rd0.p, ok |-> rd0.ok, nesting |-> nesting, buf |-> buf,
                    ret |-> FALSE]), LAMBDA st :
      [p |-> st.p, nesting |-> st.nesting, buf |-> st.buf, ret |-> st.ret]))

(* The code without the spaces and the one pair of braces around it.       *)
codeText(buf) ==
  With(trimSpaces(buf), LAMBDA b :
    With(IF b # <<>> /\ b[1] = SrcRunes.lbrace /\ b[Len(b)] = SrcRunes.rbrace
         THEN trimSpaces(SubSeq(b, 2, Len(b) - 1))
         ELSE b, LAMBDA inner :
      IF inner = <<>> THEN <<>> ELSE Append(inner, Runes.nl)))

readCode(p) ==
  With(readCodeLoop(p, TRUE, 0, <<>>), LAMBDA lp :
    IF lp.ret THEN [p |-> lp.p, s |-> <<>>]
    ELSE IF lp.nesting > 0 THEN [p |-> reportError(lp.p, ErrUnmatchedLBrace), s |-> <<>>]
    ELSE [p |-> lp.p, s |-> codeText(lp.buf)])

NexProgram(id, regex) ==
  [Id |-> id, Regex |-> regex, StartCode |-> <<>>, EndCode |-> <<>>, UserCode |-> <<>>,
   Children |-> <<>>, NFA |-> <<>>, DFA |-> <<>>]

(* The loop of readRegex: the runes up to the delimiter that no backslash  *)
(* is read just before; ret says that the loop was left by the return at   *)
(* a newline.                                                              *)
(* The state of the loop is the parser p, the ok of its last read, regex,  *)
(* isEscape and ret.                                                       *)
readRegexStep(st) ==
  IF st.p.r = Runes.nl
  THEN [st EXCEPT !.p = reportError(st.p, ErrUnexpectedNewline), !.ret = TRUE]
  ELSE With(mustRead(st.p), LAMBDA rd :
         [p |-> rd.p, ok |-> rd.ok, regex |-> Append(st.regex, st.p.r),
          isEscape |-> st.p.r = SrcRunes.bslash, ret |-> FALSE])

readRegexLoopNoEscapeFault(p, delim, regex, isEscape) ==
  With(mustRead(p), LAMBDA rd0 :
    With(whileLoop(readRegexStep,
                   LAMBDA st : st.ret \/ ~(st.ok /\ st.p.r # delim),
                   [p |-> rd0.p, ok |-> rd0.ok, regex |-> regex, isEscape |-> isEscape,
                    ret |-> FALSE]), LAMBDA st :
      [p |-> st.p, regex |-> st.regex, ret |-> st.ret]))

readRegexLoop(p, delim, regex, isEscape) ==
  With(mustRead(p), LAMBDA rd0 :
    With(whileLoop(readRegexStep,
                   LAMBDA st : st.ret \/ ~(st.ok /\ (st.p.r # delim \/ st.isEscape)),
                   [p |-> rd0.p, ok |-> rd0.ok, regex |-> regex, isEscape |-> isEscape,
                    ret |-> FALSE]), LAMBDA st :
      [p |-> st.p, regex |-> st.regex, ret |-> st.ret]))

(* nil is TRUE where the code returns nil.                                 *)
readRegexColIdFault(p, delim) ==
  With(readRegexLoop(p, delim, <<>>, FALSE), LAMBDA lp :
    IF lp.ret \/ lp.p.err # NoErr
    THEN [p |-> lp.p, nil |-> TRUE, node |-> NexProgram(0, <<>>)]
    ELSE [p |-> lp.p, nil |-> FALSE, node |-> NexProgram(lp.p.col, lp.regex)])

(* A faulty variant of readRegex: the id is the offset of the opening      *)
(* delimiter, counted from 0.                                              *)
readRegexOpenIdFault(p, delim) ==
  With(readRegexLoop(p, delim, <<>>, FALSE), LAMBDA lp :
    IF lp.ret \/ lp.p.err # NoErr
    THEN [p |-> lp.p, nil |-> TRUE, node |-> NexProgram(0, <<>>)]
    ELSE [p |-> lp.p, nil |-> FALSE,
          node |-> NexProgram(lp.p.char - Len(lp.regex) - 2, lp.regex)])

readRegex(p, delim) ==
  With(readRegexLoop(p, delim, <<>>, FALSE), LAMBDA lp :
    IF lp.ret \/ lp.p.err # NoErr
    THEN [p |-> lp.p, nil |-> TRUE, node |-> NexProgram(0, <<>>)]
    ELSE [p |-> lp.p, nil |-> FALSE, node |-> NexProgram(lp.p.char, lp.regex)])

isNextSubExp(p) ==
  With(mustReadNextNonWs(p), LAMBDA rd :
    IF ~rd.ok THEN [p |-> rd.p, is |-> FALSE]
    ELSE IF rd.p.r = SrcRunes.lt THEN [p |-> rd.p, is |-> TRUE]
    ELSE [p |-> unread(rd.p), is |-> FALSE])

(* The functions below give, next to the parser and what the code         *)
(* returns, the history reads of the calls of readRegex they made, in the  *)
(* order of the calls; no function reads it.  One call is the record of    *)
(* the place open of the opening delimiter, the delimiter it was called    *)
(* with, and what it returned: nil, the node, and the parser p behind it.  *)
RegexRead(p, delim, rx) ==
  [open |-> p.char, delim |-> delim, nil |-> rx.nil, node |-> rx.node, p |-> rx.p]

RECURSIVE parseSubExp(_, _)
RECURSIVE parseExpListLoop(_, _, _)
RECURSIVE parseExp(_, _)

parseSubExp(p, node) ==
  With(readCode(p), LAMBDA sc :
    With(parseExpListLoop(sc.p, TRUE, <<>>), LAMBDA ch :
      With(readCode(ch.p), LAMBDA ec :
        [p |-> ec.p,
         node |-> [node EXCEPT !.StartCode = sc.s, !.Children = ch.items, !.EndCode = ec.s],
         reads |-> ch.reads])))

(* The loop of parseExpList.                                               *)
parseExpListLoop(p, isSubExp, items) ==
  With(whileLoop(
         LAMBDA st :
           With(mustReadNextNonWs(st.p), LAMBDA rd :
             IF ~rd.ok THEN [st EXCEPT !.p = rd.p, !.brk = TRUE]
             ELSE IF isSubExp /\ rd.p.r = SrcRunes.gt THEN [st EXCEPT !.p = rd.p, !.brk = TRUE]
             ELSE With(readRegex(rd.p, rd.p.r), LAMBDA rx :
                    IF rx.nil \/ (~isSubExp /\ rx.node.Regex = <<>>)
                    THEN [st EXCEPT !.p = rx.p, !.brk = TRUE,
                                    !.reads = Append(@, RegexRead(rd.p, rd.p.r, rx))]
                    ELSE With(parseExp(rx.p, rx.node), LAMBDA ex :
                           [p |-> ex.p, items |-> Append(st.items, ex.node),
                            reads |-> Append(st.reads, RegexRead(rd.p, rd.p.r, rx)) \o ex.reads,
                            brk |-> FALSE]))),
         LAMBDA st : st.brk,
         [p |-> p, items |-> items, reads |-> <<>>, brk |-> FALSE]), LAMBDA st :
    [p |-> st.p, items |-> st.items, reads |-> st.reads])

parseExp(p, child) ==
  With(isNextSubExp(p), LAMBDA sub :
    IF sub.is THEN parseSubExp(sub.p, child)
    ELSE With(readCode(sub.p), LAMBDA sc :
           [p |-> sc.p, node |-> [child EXCEPT !.StartCode = sc.s], reads |-> <<>>]))

parseExpList(p, isSubExp) == parseExpListLoop(p, isSubExp, <<>>)

parseRoot(p) ==
  With(isNextSubExp(p), LAMBDA sub :
    With(IF sub.is THEN parseSubExp(sub.p, NexProgram(0, <<>>))
         ELSE With(parseExpList(sub.p, FALSE), LAMBDA ch :
                [p |-> ch.p, node |-> [NexProgram(0, <<>>) EXCEPT !.Children = ch.items],
                 reads |-> ch.reads]),
         LAMBDA body :
      With(readRemaining(body.p), LAMBDA rem :
        [p |-> rem.p, node |-> [body.node EXCEPT !.UserCode = rem.s], reads |-> body.reads])))

(* syntax.Parse(regex, syntax.Perl) of the Go library regexp/syntax, as     *)
(* BuildNfa calls it.  The regex is a sequence of runes, so no text is     *)
(* invalid UTF-8.  A syntax.Regexp is the record of Re with three more     *)
(* fields: Flags (the set of the names of the flags that are set; Fold is  *)
(* kept equal to "FoldCase" \in Flags), Cap and Name.  An error is the     *)
(* pair of its code and the piece of the regex it is about.  The tables of *)
(* package unicode (the categories and the scripts of \p, the orbits of    *)
(* case folding) are those of Unicode 15.0.0, the version of the library   *)
(* since Go 1.21, the first with the package slices that the repository    *)
(* imports.                                                                *)
(*                                                                         *)
(* The parser p is the record of its flags, its stack and numCap, and of   *)
(* what checkLimits keeps: numRegexp (the regexps allocated), numRunes,    *)
(* repeats, and the maps size and height.  A regexp inside the parser has  *)
(* two more fields, size and height: its entries in the two maps, 0 for no *)
(* entry; sizeOn and heightOn say that the map is not nil.  The free list  *)
(* of the parser is the sequence free of the entries of the map size of    *)
(* the regexps on it, the last one reused first: reuse deletes the entry   *)
(* of the map height and leaves the one of the map size, which the next    *)
(* regexp made of that memory inherits.  A panic of checkLimits is the     *)
(* field panic; the parse stops at the end of the step that raised it and  *)
(* the error is the code with the whole regex, as the recover of parse     *)
(* makes it.  A size above maxSize is kept as maxSize + 1: the sums and    *)
(* the products of calcSize are int64 and only compared with maxSize.      *)
ErrInvalidCharRange == "invalid character class range"

ErrInvalidEscape == "invalid escape sequence"

ErrInvalidNamedCapture == "invalid named capture"

ErrInvalidPerlOp == "invalid or unsupported Perl syntax"

ErrInvalidRepeatOp == "invalid nested repetition operator"

ErrInvalidRepeatSize == "invalid repeat count"

ErrLarge == "expression too large"

ErrNestingDepth == "expression nests too deeply"

ErrMissingBracket == "missing closing ]"

ErrMissingParen == "missing closing )"

ErrMissingRepeatArgument == "missing argument to repetition operator"

ErrTrailingBackslash == "trailing backslash at end of expression"

ErrUnexpectedParen == "unexpected )"

Perl == {"ClassNL", "OneLine", "PerlX", "UnicodeGroups"}

(* maxHeight, maxSize = 128 MB / instSize (40 bytes) and maxRunes = 128 MB *)
(* / runeSize (4 bytes) of parse.go.                                       *)
Limits == [maxHeight |-> 1000, maxSize |-> 3355443, maxRunes |-> 33554432]

Unicode == [MaxRune |-> 1114111, RuneSelf |-> 128, RuneError |-> 65533, minFold |-> 65,
            maxFold |-> 125251, kelvin |-> 8490, longS |-> 383]

ReRunes == [dollar |-> 36, lparen |-> 40, rparen |-> 41, plus |-> 43, comma |-> 44,
            minus |-> 45, dot |-> 46, d0 |-> 48, d7 |-> 55, d9 |-> 57, colon |-> 58,
            quest |-> 63, lbrack |-> 91, rbrack |-> 93, caret |-> 94, bar |-> 124,
            vt |-> 11, ff |-> 12, A |-> 65, B |-> 66, C |-> 67, D |-> 68, E |-> 69,
            F |-> 70, K |-> 75, P |-> 80, Q |-> 81, S |-> 83, U |-> 85, W |-> 87,
            Z |-> 90, i |-> 105, k |-> 107, m |-> 109, n |-> 110, p |-> 112, r |-> 114,
            s |-> 115, t |-> 116, v |-> 118, w |-> 119, y |-> 121, z |-> 122]

(* The order of the constants Op, the pseudo-operators of the parser last. *)
OpRank == [OpNoMatch |-> 1, OpEmptyMatch |-> 2, OpLiteral |-> 3, OpCharClass |-> 4,
           OpAnyCharNotNL |-> 5, OpAnyChar |-> 6, OpBeginLine |-> 7, OpEndLine |-> 8,
           OpBeginText |-> 9, OpEndText |-> 10, OpWordBoundary |-> 11,
           OpNoWordBoundary |-> 12, OpCapture |-> 13, OpStar |-> 14, OpPlus |-> 15,
           OpQuest |-> 16, OpRepeat |-> 17, OpConcat |-> 18, OpAlternate |-> 19,
           opLeftParen |-> 128, opVerticalBar |-> 129]

isPseudo(re) == OpRank[re.Op] >= OpRank.opLeftParen

(* Regexp{Op: op}.                                                         *)
Regexp(op) ==
  [Op |-> op, Rune |-> <<>>, Fold |-> FALSE, Sub |-> <<>>, Min |-> 0, Max |-> 0,
   Flags |-> {}, Cap |-> 0, Name |-> <<>>]

setFlags(re, flags) == [re EXCEPT !.Flags = flags, !.Fold = ("FoldCase" \in flags)]

(* No regexp: the nil of leadingRegexp.                                    *)
NilRegexp == Regexp("nil")

isalnum(c) == (c >= 48 /\ c <= 57) \/ (c >= 65 /\ c <= 90) \/ (c >= 97 /\ c <= 122)

unhex(c) ==
  IF c >= 48 /\ c <= 57 THEN c - 48
  ELSE IF c >= 97 /\ c <= 102 THEN c - 97 + 10
  ELSE IF c >= 65 /\ c <= 70 THEN c - 65 + 10
  ELSE -1

(* unicode.Categories: the table of the category of the name, a text in     *)
(* runes (the name stands after each case), as the lo, hi pairs of its      *)
(* ranges in order, ranges with a stride written out and ranges that abut   *)
(* joined; no pairs where there is no such category.                        *)
Categories(name) ==
  CASE name = <<67>> ->      \* C
         <<0, 31, 127, 159, 173, 173, 1536, 1541, 1564, 1564, 1757, 1757,
           1807, 1807, 2192, 2193, 2274, 2274, 6158, 6158, 8203, 8207, 8234,
           8238, 8288, 8292, 8294, 8303, 55296, 63743, 65279, 65279, 65529,
           65531, 69821, 69821, 69837, 69837, 78896, 78911, 113824, 113827,
           119155, 119162, 917505, 917505, 917536, 917631, 983040, 1048573,
           1048576, 1114109>>
    [] name = <<67, 99>> ->      \* Cc
         <<0, 31, 127, 159>>
    [] name = <<67, 102>> ->      \* Cf
         <<173, 173, 1536, 1541, 1564, 1564, 1757, 1757, 1807, 1807, 2192,
           2193, 2274, 2274, 6158, 6158, 8203, 8207, 8234, 8238, 8288, 8292,
           8294, 8303, 65279, 65279, 65529, 65531, 69821, 69821, 69837, 69837,
           78896, 78911, 113824, 113827, 119155, 119162, 917505, 917505,
           917536, 917631>>
    [] name = <<67, 111>> ->      \* Co
         <<57344, 63743, 983040, 1048573, 1048576, 1114109>>
    [] name = <<67, 115>> ->      \* Cs
         <<55296, 57343>>
    [] name = <<76>> ->      \* L
         <<65, 90, 97, 122, 170, 170, 181, 181, 186, 186, 192, 214, 216, 246,
           248, 705, 710, 721, 736, 740, 748, 748, 750, 750, 880, 884, 886,
           887, 890, 893, 895, 895, 902, 902, 904, 906, 908, 908, 910, 929,
           931, 1013, 1015, 1153, 1162, 1327, 1329, 1366, 1369, 1369, 1376,
           1416, 1488, 1514, 1519, 1522, 1568, 1610, 1646, 1647, 1649, 1747,
           1749, 1749, 1765, 1766, 1774, 1775, 1786, 1788, 1791, 1791, 1808,
           1808, 1810, 1839, 1869, 1957, 1969, 1969, 1994, 2026, 2036, 2037,
           2042, 2042, 2048, 2069, 2074, 2074, 2084, 2084, 2088, 2088, 2112,
           2136, 2144, 2154, 2160, 2183, 2185, 2190, 2208, 2249, 2308, 2361,
           2365, 2365, 2384, 2384, 2392, 2401, 2417, 2432, 2437, 2444, 2447,
           2448, 2451, 2472, 2474, 2480, 2482, 2482, 2486, 2489, 2493, 2493,
           2510, 2510, 2524, 2525, 2527, 2529, 2544, 2545, 2556, 2556, 2565,
           2570, 2575, 2576, 2579, 2600, 2602, 2608, 2610, 2611, 2613, 2614,
           2616, 2617, 2649, 2652, 2654, 2654, 2674, 2676, 2693, 2701, 2703,
           2705, 2707, 2728, 2730, 2736, 2738, 2739, 2741, 2745, 2749, 2749,
           2768, 2768, 2784, 2785, 2809, 2809, 2821, 2828, 2831, 2832, 2835,
           2856, 2858, 2864, 2866, 2867, 2869, 2873, 2877, 2877, 2908, 2909,
           2911, 2913, 2929, 2929, 2947, 2947, 2949, 2954, 2958, 2960, 2962,
           2965, 2969, 2970, 2972, 2972, 2974, 2975, 2979, 2980, 2984, 2986,
           2990, 3001, 3024, 3024, 3077, 3084, 3086, 3088, 3090, 3112, 3114,
           3129, 3133, 3133, 3160, 3162, 3165, 3165, 3168, 3169, 3200, 3200,
           3205, 3212, 3214, 3216, 3218, 3240, 3242, 3251, 3253, 3257, 3261,
           3261, 3293, 3294, 3296, 3297, 3313, 3314, 3332, 3340, 3342, 3344,
           3346, 3386, 3389, 3389, 3406, 3406, 3412, 3414, 3423, 3425, 3450,
           3455, 3461, 3478, 3482, 3505, 3507, 3515, 3517, 3517, 3520, 3526,
           3585, 3632, 3634, 3635, 3648, 3654, 3713, 3714, 3716, 3716, 3718,
           3722, 3724, 3747, 3749, 3749, 3751, 3760, 3762, 3763, 3773, 3773,
           3776, 3780, 3782, 3782, 3804, 3807, 3840, 3840, 3904, 3911, 3913,
           3948, 3976, 3980, 4096, 4138, 4159, 4159, 4176, 4181, 4186, 4189,
           4193, 4193, 4197, 4198, 4206, 4208, 4213, 4225, 4238, 4238, 4256,
           4293, 4295, 4295, 4301, 4301, 4304, 4346, 4348, 4680, 4682, 4685,
           4688, 4694, 4696, 4696, 4698, 4701, 4704, 4744, 4746, 4749, 4752,
           4784, 4786, 4789, 4792, 4798, 4800, 4800, 4802, 4805, 4808, 4822,
           4824, 4880, 4882, 4885, 4888, 4954, 4992, 5007, 5024, 5109, 5112,
           5117, 5121, 5740, 5743, 5759, 5761, 5786, 5792, 5866, 5873, 5880,
           5888, 5905, 5919, 5937, 5952, 5969, 5984, 5996, 5998, 6000, 6016,
           6067, 6103, 6103, 6108, 6108, 6176, 6264, 6272, 6276, 6279, 6312,
           6314, 6314, 6320, 6389, 6400, 6430, 6480, 6509, 6512, 6516, 6528,
           6571, 6576, 6601, 6656, 6678, 6688, 6740, 6823, 6823, 6917, 6963,
           6981, 6988, 7043, 7072, 7086, 7087, 7098, 7141, 7168, 7203, 7245,
           7247, 7258, 7293, 7296, 7304, 7312, 7354, 7357, 7359, 7401, 7404,
           7406, 7411, 7413, 7414, 7418, 7418, 7424, 7615, 7680, 7957, 7960,
           7965, 7968, 8005, 8008, 8013, 8016, 8023, 8025, 8025, 8027, 8027,
           8029, 8029, 8031, 8061, 8064, 8116, 8118, 8124, 8126, 8126, 8130,
           8132, 8134, 8140, 8144, 8147, 8150, 8155, 8160, 8172, 8178, 8180,
           8182, 8188, 8305, 8305, 8319, 8319, 8336, 8348, 8450, 8450, 8455,
           8455, 8458, 8467, 8469, 8469, 8473, 8477, 8484, 8484, 8486, 8486,
           8488, 8488, 8490, 8493, 8495, 8505, 8508, 8511, 8517, 8521, 8526,
           8526, 8579, 8580, 11264, 11492, 11499, 11502, 11506, 11507, 11520,
           11557, 11559, 11559, 11565, 11565, 11568, 11623, 11631, 11631,
           11648, 11670, 11680, 11686, 11688, 11694, 11696, 11702, 11704,
           11710, 11712, 11718, 11720, 11726, 11728, 11734, 11736, 11742,
           11823, 11823, 12293, 12294, 12337, 12341, 12347, 12348, 12353,
           12438, 12445, 12447, 12449, 12538, 12540, 12543, 12549, 12591,
           12593, 12686, 12704, 12735, 12784, 12799, 13312, 19903, 19968,
           42124, 42192, 42237, 42240, 42508, 42512, 42527, 42538, 42539,
           42560, 42606, 42623, 42653, 42656, 42725, 42775, 42783, 42786,
           42888, 42891, 42954, 42960, 42961, 42963, 42963, 42965, 42969,
           42994, 43009, 43011, 43013, 43015, 43018, 43020, 43042, 43072,
           43123, 43138, 43187, 43250, 43255, 43259, 43259, 43261, 43262,
           43274, 43301, 43312, 43334, 43360, 43388, 43396, 43442, 43471,
           43471, 43488, 43492, 43494, 43503, 43514, 43518, 43520, 43560,
           43584, 43586, 43588, 43595, 43616, 43638, 43642, 43642, 43646,
           43695, 43697, 43697, 43701, 43702, 43705, 43709, 43712, 43712,
           43714, 43714, 43739, 43741, 43744, 43754, 43762, 43764, 43777,
           43782, 43785, 43790, 43793, 43798, 43808, 43814, 43816, 43822,
           43824, 43866, 43868, 43881, 43888, 44002, 44032, 55203, 55216,
           55238, 55243, 55291, 63744, 64109, 64112, 64217, 64256, 64262,
           64275, 64279, 64285, 64285, 64287, 64296, 64298, 64310, 64312,
           64316, 64318, 64318, 64320, 64321, 64323, 64324, 64326, 64433,
           64467, 64829, 64848, 64911, 64914, 64967, 65008, 65019, 65136,
           65140, 65142, 65276, 65313, 65338, 65345, 65370, 65382, 65470,
           65474, 65479, 65482, 65487, 65490, 65495, 65498, 65500, 65536,
           65547, 65549, 65574, 65576, 65594, 65596, 65597, 65599, 65613,
           65616, 65629, 65664, 65786, 66176, 66204, 66208, 66256, 66304,
           66335, 66349, 66368, 66370, 66377, 66384, 66421, 66432, 66461,
           66464, 66499, 66504, 66511, 66560, 66717, 66736, 66771, 66776,
           66811, 66816, 66855, 66864, 66915, 66928, 66938, 66940, 66954,
           66956, 66962, 66964, 66965, 66967, 66977, 66979, 66993, 66995,
           67001, 67003, 67004, 67072, 67382, 67392, 67413, 67424, 67431,
           67456, 67461, 67463, 67504, 67506, 67514, 67584, 67589, 67592,
           67592, 67594, 67637, 67639, 67640, 67644, 67644, 67647, 67669,
           67680, 67702, 67712, 67742, 67808, 67826, 67828, 67829, 67840,
           67861, 67872, 67897, 67968, 68023, 68030, 68031, 68096, 68096,
           68112, 68115, 68117, 68119, 68121, 68149, 68192, 68220, 68224,
           68252, 68288, 68295, 68297, 68324, 68352, 68405, 68416, 68437,
           68448, 68466, 68480, 68497, 68608, 68680, 68736, 68786, 68800,
           68850, 68864, 68899, 69248, 69289, 69296, 69297, 69376, 69404,
           69415, 69415, 69424, 69445, 69488, 69505, 69552, 69572, 69600,
           69622, 69635, 69687, 69745, 69746, 69749, 69749, 69763, 69807,
           69840, 69864, 69891, 69926, 69956, 69956, 69959, 69959, 69968,
           70002, 70006, 70006, 70019, 70066, 70081, 70084, 70106, 70106,
           70108, 70108, 70144, 70161, 70163, 70187, 70207, 70208, 70272,
           70278, 70280, 70280, 70282, 70285, 70287, 70301, 70303, 70312,
           70320, 70366, 70405, 70412, 70415, 70416, 70419, 70440, 70442,
           70448, 70450, 70451, 70453, 70457, 70461, 70461, 70480, 70480,
           70493, 70497, 70656, 70708, 70727, 70730, 70751, 70753, 70784,
           70831, 70852, 70853, 70855, 70855, 71040, 71086, 71128, 71131,
           71168, 71215, 71236, 71236, 71296, 71338, 71352, 71352, 71424,
           71450, 71488, 71494, 71680, 71723, 71840, 71903, 71935, 71942,
           71945, 71945, 71948, 71955, 71957, 71958, 71960, 71983, 71999,
           71999, 72001, 72001, 72096, 72103, 72106, 72144, 72161, 72161,
           72163, 72163, 72192, 72192, 72203, 72242, 72250, 72250, 72272,
           72272, 72284, 72329, 72349, 72349, 72368, 72440, 72704, 72712,
           72714, 72750, 72768, 72768, 72818, 72847, 72960, 72966, 72968,
           72969, 72971, 73008, 73030, 73030, 73056, 73061, 73063, 73064,
           73066, 73097, 73112, 73112, 73440, 73458, 73474, 73474, 73476,
           73488, 73490, 73523, 73648, 73648, 73728, 74649, 74880, 75075,
           77712, 77808, 77824, 78895, 78913, 78918, 82944, 83526, 92160,
           92728, 92736, 92766, 92784, 92862, 92880, 92909, 92928, 92975,
           92992, 92995, 93027, 93047, 93053, 93071, 93760, 93823, 93952,
           94026, 94032, 94032, 94099, 94111, 94176, 94177, 94179, 94179,
           94208, 100343, 100352, 101589, 101632, 101640, 110576, 110579,
           110581, 110587, 110589, 110590, 110592, 110882, 110898, 110898,
           110928, 110930, 110933, 110933, 110948, 110951, 110960, 111355,
           113664, 113770, 113776, 113788, 113792, 113800, 113808, 113817,
           119808, 119892, 119894, 119964, 119966, 119967, 119970, 119970,
           119973, 119974, 119977, 119980, 119982, 119993, 119995, 119995,
           119997, 120003, 120005, 120069, 120071, 120074, 120077, 120084,
           120086, 120092, 120094, 120121, 120123, 120126, 120128, 120132,
           120134, 120134, 120138, 120144, 120146, 120485, 120488, 120512,
           120514, 120538, 120540, 120570, 120572, 120596, 120598, 120628,
           120630, 120654, 120656, 120686, 120688, 120712, 120714, 120744,
           120746, 120770, 120772, 120779, 122624, 122654, 122661, 122666,
           122928, 122989, 123136, 123180, 123191, 123197, 123214, 123214,
           123536, 123565, 123584, 123627, 124112, 124139, 124896, 124902,
           124904, 124907, 124909, 124910, 124912, 124926, 124928, 125124,
           125184, 125251, 125259, 125259, 126464, 126467, 126469, 126495,
           126497, 126498, 126500, 126500, 126503, 126503, 126505, 126514,
           126516, 126519, 126521, 126521, 126523, 126523, 126530, 126530,
           126535, 126535, 126537, 126537, 126539, 126539, 126541, 126543,
           126545, 126546, 126548, 126548, 126551, 126551, 126553, 126553,
           126555, 126555, 126557, 126557, 126559, 126559, 126561, 126562,
           126564, 126564, 126567, 126570, 126572, 126578, 126580, 126583,
           126585, 126588, 126590, 126590, 126592, 126601, 126603, 126619,
           126625, 126627, 126629, 126633, 126635, 126651, 131072, 173791,
           173824, 177977, 177984, 178205, 178208, 183969, 183984, 191456,
           194560, 195101, 196608, 201546, 201552, 205743>>
    [] name = <<76, 108>> ->      \* Ll
         <<97, 122, 181, 181, 223, 246, 248, 255, 257, 257, 259, 259, 261,
           261, 263, 263, 265, 265, 267, 267, 269, 269, 271, 271, 273, 273,
           275, 275, 277, 277, 279, 279, 281, 281, 283, 283, 285, 285, 287,
           287, 289, 289, 291, 291, 293, 293, 295, 295, 297, 297, 299, 299,
           301, 301, 303, 303, 305, 305, 307, 307, 309, 309, 311, 312, 314,
           314, 316, 316, 318, 318, 320, 320, 322, 322, 324, 324, 326, 326,
           328, 329, 331, 331, 333, 333, 335, 335, 337, 337, 339, 339, 341,
           341, 343, 343, 345, 345, 347, 347, 349, 349, 351, 351, 353, 353,
           355, 355, 357, 357, 359, 359, 361, 361, 363, 363, 365, 365, 367,
           367, 369, 369, 371, 371, 373, 373, 375, 375, 378, 378, 380, 380,
           382, 384, 387, 387, 389, 389, 392, 392, 396, 397, 402, 402, 405,
           405, 409, 411, 414, 414, 417, 417, 419, 419, 421, 421, 424, 424,
           426, 427, 429, 429, 432, 432, 436, 436, 438, 438, 441, 442, 445,
           447, 454, 454, 457, 457, 460, 460, 462, 462, 464, 464, 466, 466,
           468, 468, 470, 470, 472, 472, 474, 474, 476, 477, 479, 479, 481,
           481, 483, 483, 485, 485, 487, 487, 489, 489, 491, 491, 493, 493,
           495, 496, 499, 499, 501, 501, 505, 505, 507, 507, 509, 509, 511,
           511, 513, 513, 515, 515, 517, 517, 519, 519, 521, 521, 523, 523,
           525, 525, 527, 527, 529, 529, 531, 531, 533, 533, 535, 535, 537,
           537, 539, 539, 541, 541, 543, 543, 545, 545, 547, 547, 549, 549,
           551, 551, 553, 553, 555, 555, 557, 557, 559, 559, 561, 561, 563,
           569, 572, 572, 575, 576, 578, 578, 583, 583, 585, 585, 587, 587,
           589, 589, 591, 659, 661, 687, 881, 881, 883, 883, 887, 887, 891,
           893, 912, 912, 940, 974, 976, 977, 981, 983, 985, 985, 987, 987,
           989, 989, 991, 991, 993, 993, 995, 995, 997, 997, 999, 999, 1001,
           1001, 1003, 1003, 1005, 1005, 1007, 1011, 1013, 1013, 1016, 1016,
           1019, 1020, 1072, 1119, 1121, 1121, 1123, 1123, 1125, 1125, 1127,
           1127, 1129, 1129, 1131, 1131, 1133, 1133, 1135, 1135, 1137, 1137,
           1139, 1139, 1141, 1141, 1143, 1143, 1145, 1145, 1147, 1147, 1149,
           1149, 1151, 1151, 1153, 1153, 1163, 1163, 1165, 1165, 1167, 1167,
           1169, 1169, 1171, 1171, 1173, 1173, 1175, 1175, 1177, 1177, 1179,
           1179, 1181, 1181, 1183, 1183, 1185, 1185, 1187, 1187, 1189, 1189,
           1191, 1191, 1193, 1193, 1195, 1195, 1197, 1197, 1199, 1199, 1201,
           1201, 1203, 1203, 1205, 1205, 1207, 1207, 1209, 1209, 1211, 1211,
           1213, 1213, 1215, 1215, 1218, 1218, 1220, 1220, 1222, 1222, 1224,
           1224, 1226, 1226, 1228, 1228, 1230, 1231, 1233, 1233, 1235, 1235,
           1237, 1237, 1239, 1239, 1241, 1241, 1243, 1243, 1245, 1245, 1247,
           1247, 1249, 1249, 1251, 1251, 1253, 1253, 1255, 1255, 1257, 1257,
           1259, 1259, 1261, 1261, 1263, 1263, 1265, 1265, 1267, 1267, 1269,
           1269, 1271, 1271, 1273, 1273, 1275, 1275, 1277, 1277, 1279, 1279,
           1281, 1281, 1283, 1283, 1285, 1285, 1287, 1287, 1289, 1289, 1291,
           1291, 1293, 1293, 1295, 1295, 1297, 1297, 1299, 1299, 1301, 1301,
           1303, 1303, 1305, 1305, 1307, 1307, 1309, 1309, 1311, 1311, 1313,
           1313, 1315, 1315, 1317, 1317, 1319, 1319, 1321, 1321, 1323, 1323,
           1325, 1325, 1327, 1327, 1376, 1416, 4304, 4346, 4349, 4351, 5112,
           5117, 7296, 7304, 7424, 7467, 7531, 7543, 7545, 7578, 7681, 7681,
           7683, 7683, 7685, 7685, 7687, 7687, 7689, 7689, 7691, 7691, 7693,
           7693, 7695, 7695, 7697, 7697, 7699, 7699, 7701, 7701, 7703, 7703,
           7705, 7705, 7707, 7707, 7709, 7709, 7711, 7711, 7713, 7713, 7715,
           7715, 7717, 7717, 7719, 7719, 7721, 7721, 7723, 7723, 7725, 7725,
           7727, 7727, 7729, 7729, 7731, 7731, 7733, 7733, 7735, 7735, 7737,
           7737, 7739, 7739, 7741, 7741, 7743, 7743, 7745, 7745, 7747, 7747,
           7749, 7749, 7751, 7751, 7753, 7753, 7755, 7755, 7757, 7757, 7759,
           7759, 7761, 7761, 7763, 7763, 7765, 7765, 7767, 7767, 7769, 7769,
           7771, 7771, 7773, 7773, 7775, 7775, 7777, 7777, 7779, 7779, 7781,
           7781, 7783, 7783, 7785, 7785, 7787, 7787, 7789, 7789, 7791, 7791,
           7793, 7793, 7795, 7795, 7797, 7797, 7799, 7799, 7801, 7801, 7803,
           7803, 7805, 7805, 7807, 7807, 7809, 7809, 7811, 7811, 7813, 7813,
           7815, 7815, 7817, 7817, 7819, 7819, 7821, 7821, 7823, 7823, 7825,
           7825, 7827, 7827, 7829, 7837, 7839, 7839, 7841, 7841, 7843, 7843,
           7845, 7845, 7847, 7847, 7849, 7849, 7851, 7851, 7853, 7853, 7855,
           7855, 7857, 7857, 7859, 7859, 7861, 7861, 7863, 7863, 7865, 7865,
           7867, 7867, 7869, 7869, 7871, 7871, 7873, 7873, 7875, 7875, 7877,
           7877, 7879, 7879, 7881, 7881, 7883, 7883, 7885, 7885, 7887, 7887,
           7889, 7889, 7891, 7891, 7893, 7893, 7895, 7895, 7897, 7897, 7899,
           7899, 7901, 7901, 7903, 7903, 7905, 7905, 7907, 7907, 7909, 7909,
           7911, 7911, 7913, 7913, 7915, 7915, 7917, 7917, 7919, 7919, 7921,
           7921, 7923, 7923, 7925, 7925, 7927, 7927, 7929, 7929, 7931, 7931,
           7933, 7933, 7935, 7943, 7952, 7957, 7968, 7975, 7984, 7991, 8000,
           8005, 8016, 8023, 8032, 8039, 8048, 8061, 8064, 8071, 8080, 8087,
           8096, 8103, 8112, 8116, 8118, 8119, 8126, 8126, 8130, 8132, 8134,
           8135, 8144, 8147, 8150, 8151, 8160, 8167, 8178, 8180, 8182, 8183,
           8458, 8458, 8462, 8463, 8467, 8467, 8495, 8495, 8500, 8500, 8505,
           8505, 8508, 8509, 8518, 8521, 8526, 8526, 8580, 8580, 11312, 11359,
           11361, 11361, 11365, 11366, 11368, 11368, 11370, 11370, 11372,
           11372, 11377, 11377, 11379, 11380, 11382, 11387, 11393, 11393,
           11395, 11395, 11397, 11397, 11399, 11399, 11401, 11401, 11403,
           11403, 11405, 11405, 11407, 11407, 11409, 11409, 11411, 11411,
           11413, 11413, 11415, 11415, 11417, 11417, 11419, 11419, 11421,
           11421, 11423, 11423, 11425, 11425, 11427, 11427, 11429, 11429,
           11431, 11431, 11433, 11433, 11435, 11435, 11437, 11437, 11439,
           11439, 11441, 11441, 11443, 11443, 11445, 11445, 11447, 11447,
           11449, 11449, 11451, 11451, 11453, 11453, 11455, 11455, 11457,
           11457, 11459, 11459, 11461, 11461, 11463, 11463, 11465, 11465,
           11467, 11467, 11469, 11469, 11471, 11471, 11473, 11473, 11475,
           11475, 11477, 11477, 11479, 11479, 11481, 11481, 11483, 11483,
           11485, 11485, 11487, 11487, 11489, 11489, 11491, 11492, 11500,
           11500, 11502, 11502, 11507, 11507, 11520, 11557, 11559, 11559,
           11565, 11565, 42561, 42561, 42563, 42563, 42565, 42565, 42567,
           42567, 42569, 42569, 42571, 42571, 42573, 42573, 42575, 42575,
           42577, 42577, 42579, 42579, 42581, 42581, 42583, 42583, 42585,
           42585, 42587, 42587, 42589, 42589, 42591, 42591, 42593, 42593,
           42595, 42595, 42597, 42597, 42599, 42599, 42601, 42601, 42603,
           42603, 42605, 42605, 42625, 42625, 42627, 42627, 42629, 42629,
           42631, 42631, 42633, 42633, 42635, 42635, 42637, 42637, 42639,
           42639, 42641, 42641, 42643, 42643, 42645, 42645, 42647, 42647,
           42649, 42649, 42651, 42651, 42787, 42787, 42789, 42789, 42791,
           42791, 42793, 42793, 42795, 42795, 42797, 42797, 42799, 42801,
           42803, 42803, 42805, 42805, 42807, 42807, 42809, 42809, 42811,
           42811, 42813, 42813, 42815, 42815, 42817, 42817, 42819, 42819,
           42821, 42821, 42823, 42823, 42825, 42825, 42827, 42827, 42829,
           42829, 42831, 42831, 42833, 42833, 42835, 42835, 42837, 42837,
           42839, 42839, 42841, 42841, 42843, 42843, 42845, 42845, 42847,
           42847, 42849, 42849, 42851, 42851, 42853, 42853, 42855, 42855,
           42857, 42857, 42859, 42859, 42861, 42861, 42863, 42863, 42865,
           42872, 42874, 42874, 42876, 42876, 42879, 42879, 42881, 42881,
           42883, 42883, 42885, 42885, 42887, 42887, 42892, 42892, 42894,
           42894, 42897, 42897, 42899, 42901, 42903, 42903, 42905, 42905,
           42907, 42907, 42909, 42909, 42911, 42911, 42913, 42913, 42915,
           42915, 42917, 42917, 42919, 42919, 42921, 42921, 42927, 42927,
           42933, 42933, 42935, 42935, 42937, 42937, 42939, 42939, 42941,
           42941, 42943, 42943, 42945, 42945, 42947, 42947, 42952, 42952,
           42954, 42954, 42961, 42961, 42963, 42963, 42965, 42965, 42967,
           42967, 42969, 42969, 42998, 42998, 43002, 43002, 43824, 43866,
           43872, 43880, 43888, 43967, 64256, 64262, 64275, 64279, 65345,
           65370, 66600, 66639, 66776, 66811, 66967, 66977, 66979, 66993,
           66995, 67001, 67003, 67004, 68800, 68850, 71872, 71903, 93792,
           93823, 119834, 119859, 119886, 119892, 119894, 119911, 119938,
           119963, 119990, 119993, 119995, 119995, 119997, 120003, 120005,
           120015, 120042, 120067, 120094, 120119, 120146, 120171, 120198,
           120223, 120250, 120275, 120302, 120327, 120354, 120379, 120406,
           120431, 120458, 120485, 120514, 120538, 120540, 120545, 120572,
           120596, 120598, 120603, 120630, 120654, 120656, 120661, 120688,
           120712, 120714, 120719, 120746, 120770, 120772, 120777, 120779,
           120779, 122624, 122633, 122635, 122654, 122661, 122666, 125218,
           125251>>
    [] name = <<76, 109>> ->      \* Lm
         <<688, 705, 710, 721, 736, 740, 748, 748, 750, 750, 884, 884, 890,
           890, 1369, 1369, 1600, 1600, 1765, 1766, 2036, 2037, 2042, 2042,
           2074, 2074, 2084, 2084, 2088, 2088, 2249, 2249, 2417, 2417, 3654,
           3654, 3782, 3782, 4348, 4348, 6103, 6103, 6211, 6211, 6823, 6823,
           7288, 7293, 7468, 7530, 7544, 7544, 7579, 7615, 8305, 8305, 8319,
           8319, 8336, 8348, 11388, 11389, 11631, 11631, 11823, 11823, 12293,
           12293, 12337, 12341, 12347, 12347, 12445, 12446, 12540, 12542,
           40981, 40981, 42232, 42237, 42508, 42508, 42623, 42623, 42652,
           42653, 42775, 42783, 42864, 42864, 42888, 42888, 42994, 42996,
           43000, 43001, 43471, 43471, 43494, 43494, 43632, 43632, 43741,
           43741, 43763, 43764, 43868, 43871, 43881, 43881, 65392, 65392,
           65438, 65439, 67456, 67461, 67463, 67504, 67506, 67514, 92992,
           92995, 94099, 94111, 94176, 94177, 94179, 94179, 110576, 110579,
           110581, 110587, 110589, 110590, 122928, 122989, 123191, 123197,
           124139, 124139, 125259, 125259>>
    [] name = <<76, 111>> ->      \* Lo
         <<170, 170, 186, 186, 443, 443, 448, 451, 660, 660, 1488, 1514, 1519,
           1522, 1568, 1599, 1601, 1610, 1646, 1647, 1649, 1747, 1749, 1749,
           1774, 1775, 1786, 1788, 1791, 1791, 1808, 1808, 1810, 1839, 1869,
           1957, 1969, 1969, 1994, 2026, 2048, 2069, 2112, 2136, 2144, 2154,
           2160, 2183, 2185, 2190, 2208, 2248, 2308, 2361, 2365, 2365, 2384,
           2384, 2392, 2401, 2418, 2432, 2437, 2444, 2447, 2448, 2451, 2472,
           2474, 2480, 2482, 2482, 2486, 2489, 2493, 2493, 2510, 2510, 2524,
           2525, 2527, 2529, 2544, 2545, 2556, 2556, 2565, 2570, 2575, 2576,
           2579, 2600, 2602, 2608, 2610, 2611, 2613, 2614, 2616, 2617, 2649,
           2652, 2654, 2654, 2674, 2676, 2693, 2701, 2703, 2705, 2707, 2728,
           2730, 2736, 2738, 2739, 2741, 2745, 2749, 2749, 2768, 2768, 2784,
           2785, 2809, 2809, 2821, 2828, 2831, 2832, 2835, 2856, 2858, 2864,
           2866, 2867, 2869, 2873, 2877, 2877, 2908, 2909, 2911, 2913, 2929,
           2929, 2947, 2947, 2949, 2954, 2958, 2960, 2962, 2965, 2969, 2970,
           2972, 2972, 2974, 2975, 2979, 2980, 2984, 2986, 2990, 3001, 3024,
           3024, 3077, 3084, 3086, 3088, 3090, 3112, 3114, 3129, 3133, 3133,
           3160, 3162, 3165, 3165, 3168, 3169, 3200, 3200, 3205, 3212, 3214,
           3216, 3218, 3240, 3242, 3251, 3253, 3257, 3261, 3261, 3293, 3294,
           3296, 3297, 3313, 3314, 3332, 3340, 3342, 3344, 3346, 3386, 3389,
           3389, 3406, 3406, 3412, 3414, 3423, 3425, 3450, 3455, 3461, 3478,
           3482, 3505, 3507, 3515, 3517, 3517, 3520, 3526, 3585, 3632, 3634,
           3635, 3648, 3653, 3713, 3714, 3716, 3716, 3718, 3722, 3724, 3747,
           3749, 3749, 3751, 3760, 3762, 3763, 3773, 3773, 3776, 3780, 3804,
           3807, 3840, 3840, 3904, 3911, 3913, 3948, 3976, 3980, 4096, 4138,
           4159, 4159, 4176, 4181, 4186, 4189, 4193, 4193, 4197, 4198, 4206,
           4208, 4213, 4225, 4238, 4238, 4352, 4680, 4682, 4685, 4688, 4694,
           4696, 4696, 4698, 4701, 4704, 4744, 4746, 4749, 4752, 4784, 4786,
           4789, 4792, 4798, 4800, 4800, 4802, 4805, 4808, 4822, 4824, 4880,
           4882, 4885, 4888, 4954, 4992, 5007, 5121, 5740, 5743, 5759, 5761,
           5786, 5792, 5866, 5873, 5880, 5888, 5905, 5919, 5937, 5952, 5969,
           5984, 5996, 5998, 6000, 6016, 6067, 6108, 6108, 6176, 6210, 6212,
           6264, 6272, 6276, 6279, 6312, 6314, 6314, 6320, 6389, 6400, 6430,
           6480, 6509, 6512, 6516, 6528, 6571, 6576, 6601, 6656, 6678, 6688,
           6740, 6917, 6963, 6981, 6988, 7043, 7072, 7086, 7087, 7098, 7141,
           7168, 7203, 7245, 7247, 7258, 7287, 7401, 7404, 7406, 7411, 7413,
           7414, 7418, 7418, 8501, 8504, 11568, 11623, 11648, 11670, 11680,
           11686, 11688, 11694, 11696, 11702, 11704, 11710, 11712, 11718,
           11720, 11726, 11728, 11734, 11736, 11742, 12294, 12294, 12348,
           12348, 12353, 12438, 12447, 12447, 12449, 12538, 12543, 12543,
           12549, 12591, 12593, 12686, 12704, 12735, 12784, 12799, 13312,
           19903, 19968, 40980, 40982, 42124, 42192, 42231, 42240, 42507,
           42512, 42527, 42538, 42539, 42606, 42606, 42656, 42725, 42895,
           42895, 42999, 42999, 43003, 43009, 43011, 43013, 43015, 43018,
           43020, 43042, 43072, 43123, 43138, 43187, 43250, 43255, 43259,
           43259, 43261, 43262, 43274, 43301, 43312, 43334, 43360, 43388,
           43396, 43442, 43488, 43492, 43495, 43503, 43514, 43518, 43520,
           43560, 43584, 43586, 43588, 43595, 43616, 43631, 43633, 43638,
           43642, 43642, 43646, 43695, 43697, 43697, 43701, 43702, 43705,
           43709, 43712, 43712, 43714, 43714, 43739, 43740, 43744, 43754,
           43762, 43762, 43777, 43782, 43785, 43790, 43793, 43798, 43808,
           43814, 43816, 43822, 43968, 44002, 44032, 55203, 55216, 55238,
           55243, 55291, 63744, 64109, 64112, 64217, 64285, 64285, 64287,
           64296, 64298, 64310, 64312, 64316, 64318, 64318, 64320, 64321,
           64323, 64324, 64326, 64433, 64467, 64829, 64848, 64911, 64914,
           64967, 65008, 65019, 65136, 65140, 65142, 65276, 65382, 65391,
           65393, 65437, 65440, 65470, 65474, 65479, 65482, 65487, 65490,
           65495, 65498, 65500, 65536, 65547, 65549, 65574, 65576, 65594,
           65596, 65597, 65599, 65613, 65616, 65629, 65664, 65786, 66176,
           66204, 66208, 66256, 66304, 66335, 66349, 66368, 66370, 66377,
           66384, 66421, 66432, 66461, 66464, 66499, 66504, 66511, 66640,
           66717, 66816, 66855, 66864, 66915, 67072, 67382, 67392, 67413,
           67424, 67431, 67584, 67589, 67592, 67592, 67594, 67637, 67639,
           67640, 67644, 67644, 67647, 67669, 67680, 67702, 67712, 67742,
           67808, 67826, 67828, 67829, 67840, 67861, 67872, 67897, 67968,
           68023, 68030, 68031, 68096, 68096, 68112, 68115, 68117, 68119,
           68121, 68149, 68192, 68220, 68224, 68252, 68288, 68295, 68297,
           68324, 68352, 68405, 68416, 68437, 68448, 68466, 68480, 68497,
           68608, 68680, 68864, 68899, 69248, 69289, 69296, 69297, 69376,
           69404, 69415, 69415, 69424, 69445, 69488, 69505, 69552, 69572,
           69600, 69622, 69635, 69687, 69745, 69746, 69749, 69749, 69763,
           69807, 69840, 69864, 69891, 69926, 69956, 69956, 69959, 69959,
           69968, 70002, 70006, 70006, 70019, 70066, 70081, 70084, 70106,
           70106, 70108, 70108, 70144, 70161, 70163, 70187, 70207, 70208,
           70272, 70278, 70280, 70280, 70282, 70285, 70287, 70301, 70303,
           70312, 70320, 70366, 70405, 70412, 70415, 70416, 70419, 70440,
           70442, 70448, 70450, 70451, 70453, 70457, 70461, 70461, 70480,
           70480, 70493, 70497, 70656, 70708, 70727, 70730, 70751, 70753,
           70784, 70831, 70852, 70853, 70855, 70855, 71040, 71086, 71128,
           71131, 71168, 71215, 71236, 71236, 71296, 71338, 71352, 71352,
           71424, 71450, 71488, 71494, 71680, 71723, 71935, 71942, 71945,
           71945, 71948, 71955, 71957, 71958, 71960, 71983, 71999, 71999,
           72001, 72001, 72096, 72103, 72106, 72144, 72161, 72161, 72163,
           72163, 72192, 72192, 72203, 72242, 72250, 72250, 72272, 72272,
           72284, 72329, 72349, 72349, 72368, 72440, 72704, 72712, 72714,
           72750, 72768, 72768, 72818, 72847, 72960, 72966, 72968, 72969,
           72971, 73008, 73030, 73030, 73056, 73061, 73063, 73064, 73066,
           73097, 73112, 73112, 73440, 73458, 73474, 73474, 73476, 73488,
           73490, 73523, 73648, 73648, 73728, 74649, 74880, 75075, 77712,
           77808, 77824, 78895, 78913, 78918, 82944, 83526, 92160, 92728,
           92736, 92766, 92784, 92862, 92880, 92909, 92928, 92975, 93027,
           93047, 93053, 93071, 93952, 94026, 94032, 94032, 94208, 100343,
           100352, 101589, 101632, 101640, 110592, 110882, 110898, 110898,
           110928, 110930, 110933, 110933, 110948, 110951, 110960, 111355,
           113664, 113770, 113776, 113788, 113792, 113800, 113808, 113817,
           122634, 122634, 123136, 123180, 123214, 123214, 123536, 123565,
           123584, 123627, 124112, 124138, 124896, 124902, 124904, 124907,
           124909, 124910, 124912, 124926, 124928, 125124, 126464, 126467,
           126469, 126495, 126497, 126498, 126500, 126500, 126503, 126503,
           126505, 126514, 126516, 126519, 126521, 126521, 126523, 126523,
           126530, 126530, 126535, 126535, 126537, 126537, 126539, 126539,
           126541, 126543, 126545, 126546, 126548, 126548, 126551, 126551,
           126553, 126553, 126555, 126555, 126557, 126557, 126559, 126559,
           126561, 126562, 126564, 126564, 126567, 126570, 126572, 126578,
           126580, 126583, 126585, 126588, 126590, 126590, 126592, 126601,
           126603, 126619, 126625, 126627, 126629, 126633, 126635, 126651,
           131072, 173791, 173824, 177977, 177984, 178205, 178208, 183969,
           183984, 191456, 194560, 195101, 196608, 201546, 201552, 205743>>
    [] name = <<76, 116>> ->      \* Lt
         <<453, 453, 456, 456, 459, 459, 498, 498, 8072, 8079, 8088, 8095,
           8104, 8111, 8124, 8124, 8140, 8140, 8188, 8188>>
    [] name = <<76, 117>> ->      \* Lu
         <<65, 90, 192, 214, 216, 222, 256, 256, 258, 258, 260, 260, 262, 262,
           264, 264, 266, 266, 268, 268, 270, 270, 272, 272, 274, 274, 276,
           276, 278, 278, 280, 280, 282, 282, 284, 284, 286, 286, 288, 288,
           290, 290, 292, 292, 294, 294, 296, 296, 298, 298, 300, 300, 302,
           302, 304, 304, 306, 306, 308, 308, 310, 310, 313, 313, 315, 315,
           317, 317, 319, 319, 321, 321, 323, 323, 325, 325, 327, 327, 330,
           330, 332, 332, 334, 334, 336, 336, 338, 338, 340, 340, 342, 342,
           344, 344, 346, 346, 348, 348, 350, 350, 352, 352, 354, 354, 356,
           356, 358, 358, 360, 360, 362, 362, 364, 364, 366, 366, 368, 368,
           370, 370, 372, 372, 374, 374, 376, 377, 379, 379, 381, 381, 385,
           386, 388, 388, 390, 391, 393, 395, 398, 401, 403, 404, 406, 408,
           412, 413, 415, 416, 418, 418, 420, 420, 422, 423, 425, 425, 428,
           428, 430, 431, 433, 435, 437, 437, 439, 440, 444, 444, 452, 452,
           455, 455, 458, 458, 461, 461, 463, 463, 465, 465, 467, 467, 469,
           469, 471, 471, 473, 473, 475, 475, 478, 478, 480, 480, 482, 482,
           484, 484, 486, 486, 488, 488, 490, 490, 492, 492, 494, 494, 497,
           497, 500, 500, 502, 504, 506, 506, 508, 508, 510, 510, 512, 512,
           514, 514, 516, 516, 518, 518, 520, 520, 522, 522, 524, 524, 526,
           526, 528, 528, 530, 530, 532, 532, 534, 534, 536, 536, 538, 538,
           540, 540, 542, 542, 544, 544, 546, 546, 548, 548, 550, 550, 552,
           552, 554, 554, 556, 556, 558, 558, 560, 560, 562, 562, 570, 571,
           573, 574, 577, 577, 579, 582, 584, 584, 586, 586, 588, 588, 590,
           590, 880, 880, 882, 882, 886, 886, 895, 895, 902, 902, 904, 906,
           908, 908, 910, 911, 913, 929, 931, 939, 975, 975, 978, 980, 984,
           984, 986, 986, 988, 988, 990, 990, 992, 992, 994, 994, 996, 996,
           998, 998, 1000, 1000, 1002, 1002, 1004, 1004, 1006, 1006, 1012,
           1012, 1015, 1015, 1017, 1018, 1021, 1071, 1120, 1120, 1122, 1122,
           1124, 1124, 1126, 1126, 1128, 1128, 1130, 1130, 1132, 1132, 1134,
           1134, 1136, 1136, 1138, 1138, 1140, 1140, 1142, 1142, 1144, 1144,
           1146, 1146, 1148, 1148, 1150, 1150, 1152, 1152, 1162, 1162, 1164,
           1164, 1166, 1166, 1168, 1168, 1170, 1170, 1172, 1172, 1174, 1174,
           1176, 1176, 1178, 1178, 1180, 1180, 1182, 1182, 1184, 1184, 1186,
           1186, 1188, 1188, 1190, 1190, 1192, 1192, 1194, 1194, 1196, 1196,
           1198, 1198, 1200, 1200, 1202, 1202, 1204, 1204, 1206, 1206, 1208,
           1208, 1210, 1210, 1212, 1212, 1214, 1214, 1216, 1217, 1219, 1219,
           1221, 1221, 1223, 1223, 1225, 1225, 1227, 1227, 1229, 1229, 1232,
           1232, 1234, 1234, 1236, 1236, 1238, 1238, 1240, 1240, 1242, 1242,
           1244, 1244, 1246, 1246, 1248, 1248, 1250, 1250, 1252, 1252, 1254,
           1254, 1256, 1256, 1258, 1258, 1260, 1260, 1262, 1262, 1264, 1264,
           1266, 1266, 1268, 1268, 1270, 1270, 1272, 1272, 1274, 1274, 1276,
           1276, 1278, 1278, 1280, 1280, 1282, 1282, 1284, 1284, 1286, 1286,
           1288, 1288, 1290, 1290, 1292, 1292, 1294, 1294, 1296, 1296, 1298,
           1298, 1300, 1300, 1302, 1302, 1304, 1304, 1306, 1306, 1308, 1308,
           1310, 1310, 1312, 1312, 1314, 1314, 1316, 1316, 1318, 1318, 1320,
           1320, 1322, 1322, 1324, 1324, 1326, 1326, 1329, 1366, 4256, 4293,
           4295, 4295, 4301, 4301, 5024, 5109, 7312, 7354, 7357, 7359, 7680,
           7680, 7682, 7682, 7684, 7684, 7686, 7686, 7688, 7688, 7690, 7690,
           7692, 7692, 7694, 7694, 7696, 7696, 7698, 7698, 7700, 7700, 7702,
           7702, 7704, 7704, 7706, 7706, 7708, 7708, 7710, 7710, 7712, 7712,
           7714, 7714, 7716, 7716, 7718, 7718, 7720, 7720, 7722, 7722, 7724,
           7724, 7726, 7726, 7728, 7728, 7730, 7730, 7732, 7732, 7734, 7734,
           7736, 7736, 7738, 7738, 7740, 7740, 7742, 7742, 7744, 7744, 7746,
           7746, 7748, 7748, 7750, 7750, 7752, 7752, 7754, 7754, 7756, 7756,
           7758, 7758, 7760, 7760, 7762, 7762, 7764, 7764, 7766, 7766, 7768,
           7768, 7770, 7770, 7772, 7772, 7774, 7774, 7776, 7776, 7778, 7778,
           7780, 7780, 7782, 7782, 7784, 7784, 7786, 7786, 7788, 7788, 7790,
           7790, 7792, 7792, 7794, 7794, 7796, 7796, 7798, 7798, 7800, 7800,
           7802, 7802, 7804, 7804, 7806, 7806, 7808, 7808, 7810, 7810, 7812,
           7812, 7814, 7814, 7816, 7816, 7818, 7818, 7820, 7820, 7822, 7822,
           7824, 7824, 7826, 7826, 7828, 7828, 7838, 7838, 7840, 7840, 7842,
           7842, 7844, 7844, 7846, 7846, 7848, 7848, 7850, 7850, 7852, 7852,
           7854, 7854, 7856, 7856, 7858, 7858, 7860, 7860, 7862, 7862, 7864,
           7864, 7866, 7866, 7868, 7868, 7870, 7870, 7872, 7872, 7874, 7874,
           7876, 7876, 7878, 7878, 7880, 7880, 7882, 7882, 7884, 7884, 7886,
           7886, 7888, 7888, 7890, 7890, 7892, 7892, 7894, 7894, 7896, 7896,
           7898, 7898, 7900, 7900, 7902, 7902, 7904, 7904, 7906, 7906, 7908,
           7908, 7910, 7910, 7912, 7912, 7914, 7914, 7916, 7916, 7918, 7918,
           7920, 7920, 7922, 7922, 7924, 7924, 7926, 7926, 7928, 7928, 7930,
           7930, 7932, 7932, 7934, 7934, 7944, 7951, 7960, 7965, 7976, 7983,
           7992, 7999, 8008, 8013, 8025, 8025, 8027, 8027, 8029, 8029, 8031,
           8031, 8040, 8047, 8120, 8123, 8136, 8139, 8152, 8155, 8168, 8172,
           8184, 8187, 8450, 8450, 8455, 8455, 8459, 8461, 8464, 8466, 8469,
           8469, 8473, 8477, 8484, 8484, 8486, 8486, 8488, 8488, 8490, 8493,
           8496, 8499, 8510, 8511, 8517, 8517, 8579, 8579, 11264, 11311,
           11360, 11360, 11362, 11364, 11367, 11367, 11369, 11369, 11371,
           11371, 11373, 11376, 11378, 11378, 11381, 11381, 11390, 11392,
           11394, 11394, 11396, 11396, 11398, 11398, 11400, 11400, 11402,
           11402, 11404, 11404, 11406, 11406, 11408, 11408, 11410, 11410,
           11412, 11412, 11414, 11414, 11416, 11416, 11418, 11418, 11420,
           11420, 11422, 11422, 11424, 11424, 11426, 11426, 11428, 11428,
           11430, 11430, 11432, 11432, 11434, 11434, 11436, 11436, 11438,
           11438, 11440, 11440, 11442, 11442, 11444, 11444, 11446, 11446,
           11448, 11448, 11450, 11450, 11452, 11452, 11454, 11454, 11456,
           11456, 11458, 11458, 11460, 11460, 11462, 11462, 11464, 11464,
           11466, 11466, 11468, 11468, 11470, 11470, 11472, 11472, 11474,
           11474, 11476, 11476, 11478, 11478, 11480, 11480, 11482, 11482,
           11484, 11484, 11486, 11486, 11488, 11488, 11490, 11490, 11499,
           11499, 11501, 11501, 11506, 11506, 42560, 42560, 42562, 42562,
           42564, 42564, 42566, 42566, 42568, 42568, 42570, 42570, 42572,
           42572, 42574, 42574, 42576, 42576, 42578, 42578, 42580, 42580,
           42582, 42582, 42584, 42584, 42586, 42586, 42588, 42588, 42590,
           42590, 42592, 42592, 42594, 42594, 42596, 42596, 42598, 42598,
           42600, 42600, 42602, 42602, 42604, 42604, 42624, 42624, 42626,
           42626, 42628, 42628, 42630, 42630, 42632, 42632, 42634, 42634,
           42636, 42636, 42638, 42638, 42640, 42640, 42642, 42642, 42644,
           42644, 42646, 42646, 42648, 42648, 42650, 42650, 42786, 42786,
           42788, 42788, 42790, 42790, 42792, 42792, 42794, 42794, 42796,
           42796, 42798, 42798, 42802, 42802, 42804, 42804, 42806, 42806,
           42808, 42808, 42810, 42810, 42812, 42812, 42814, 42814, 42816,
           42816, 42818, 42818, 42820, 42820, 42822, 42822, 42824, 42824,
           42826, 42826, 42828, 42828, 42830, 42830, 42832, 42832, 42834,
           42834, 42836, 42836, 42838, 42838, 42840, 42840, 42842, 42842,
           42844, 42844, 42846, 42846, 42848, 42848, 42850, 42850, 42852,
           42852, 42854, 42854, 42856, 42856, 42858, 42858, 42860, 42860,
           42862, 42862, 42873, 42873, 42875, 42875, 42877, 42878, 42880,
           42880, 42882, 42882, 42884, 42884, 42886, 42886, 42891, 42891,
           42893, 42893, 42896, 42896, 42898, 42898, 42902, 42902, 42904,
           42904, 42906, 42906, 42908, 42908, 42910, 42910, 42912, 42912,
           42914, 42914, 42916, 42916, 42918, 42918, 42920, 42920, 42922,
           42926, 42928, 42932, 42934, 42934, 42936, 42936, 42938, 42938,
           42940, 42940, 42942, 42942, 42944, 42944, 42946, 42946, 42948,
           42951, 42953, 42953, 42960, 42960, 42966, 42966, 42968, 42968,
           42997, 42997, 65313, 65338, 66560, 66599, 66736, 66771, 66928,
           66938, 66940, 66954, 66956, 66962, 66964, 66965, 68736, 68786,
           71840, 71871, 93760, 93791, 119808, 119833, 119860, 119885, 119912,
           119937, 119964, 119964, 119966, 119967, 119970, 119970, 119973,
           119974, 119977, 119980, 119982, 119989, 120016, 120041, 120068,
           120069, 120071, 120074, 120077, 120084, 120086, 120092, 120120,
           120121, 120123, 120126, 120128, 120132, 120134, 120134, 120138,
           120144, 120172, 120197, 120224, 120249, 120276, 120301, 120328,
           120353, 120380, 120405, 120432, 120457, 120488, 120512, 120546,
           120570, 120604, 120628, 120662, 120686, 120720, 120744, 120778,
           120778, 125184, 125217>>
    [] name = <<77>> ->      \* M
         <<768, 879, 1155, 1161, 1425, 1469, 1471, 1471, 1473, 1474, 1476,
           1477, 1479, 1479, 1552, 1562, 1611, 1631, 1648, 1648, 1750, 1756,
           1759, 1764, 1767, 1768, 1770, 1773, 1809, 1809, 1840, 1866, 1958,
           1968, 2027, 2035, 2045, 2045, 2070, 2073, 2075, 2083, 2085, 2087,
           2089, 2093, 2137, 2139, 2200, 2207, 2250, 2273, 2275, 2307, 2362,
           2364, 2366, 2383, 2385, 2391, 2402, 2403, 2433, 2435, 2492, 2492,
           2494, 2500, 2503, 2504, 2507, 2509, 2519, 2519, 2530, 2531, 2558,
           2558, 2561, 2563, 2620, 2620, 2622, 2626, 2631, 2632, 2635, 2637,
           2641, 2641, 2672, 2673, 2677, 2677, 2689, 2691, 2748, 2748, 2750,
           2757, 2759, 2761, 2763, 2765, 2786, 2787, 2810, 2815, 2817, 2819,
           2876, 2876, 2878, 2884, 2887, 2888, 2891, 2893, 2901, 2903, 2914,
           2915, 2946, 2946, 3006, 3010, 3014, 3016, 3018, 3021, 3031, 3031,
           3072, 3076, 3132, 3132, 3134, 3140, 3142, 3144, 3146, 3149, 3157,
           3158, 3170, 3171, 3201, 3203, 3260, 3260, 3262, 3268, 3270, 3272,
           3274, 3277, 3285, 3286, 3298, 3299, 3315, 3315, 3328, 3331, 3387,
           3388, 3390, 3396, 3398, 3400, 3402, 3405, 3415, 3415, 3426, 3427,
           3457, 3459, 3530, 3530, 3535, 3540, 3542, 3542, 3544, 3551, 3570,
           3571, 3633, 3633, 3636, 3642, 3655, 3662, 3761, 3761, 3764, 3772,
           3784, 3790, 3864, 3865, 3893, 3893, 3895, 3895, 3897, 3897, 3902,
           3903, 3953, 3972, 3974, 3975, 3981, 3991, 3993, 4028, 4038, 4038,
           4139, 4158, 4182, 4185, 4190, 4192, 4194, 4196, 4199, 4205, 4209,
           4212, 4226, 4237, 4239, 4239, 4250, 4253, 4957, 4959, 5906, 5909,
           5938, 5940, 5970, 5971, 6002, 6003, 6068, 6099, 6109, 6109, 6155,
           6157, 6159, 6159, 6277, 6278, 6313, 6313, 6432, 6443, 6448, 6459,
           6679, 6683, 6741, 6750, 6752, 6780, 6783, 6783, 6832, 6862, 6912,
           6916, 6964, 6980, 7019, 7027, 7040, 7042, 7073, 7085, 7142, 7155,
           7204, 7223, 7376, 7378, 7380, 7400, 7405, 7405, 7412, 7412, 7415,
           7417, 7616, 7679, 8400, 8432, 11503, 11505, 11647, 11647, 11744,
           11775, 12330, 12335, 12441, 12442, 42607, 42610, 42612, 42621,
           42654, 42655, 42736, 42737, 43010, 43010, 43014, 43014, 43019,
           43019, 43043, 43047, 43052, 43052, 43136, 43137, 43188, 43205,
           43232, 43249, 43263, 43263, 43302, 43309, 43335, 43347, 43392,
           43395, 43443, 43456, 43493, 43493, 43561, 43574, 43587, 43587,
           43596, 43597, 43643, 43645, 43696, 43696, 43698, 43700, 43703,
           43704, 43710, 43711, 43713, 43713, 43755, 43759, 43765, 43766,
           44003, 44010, 44012, 44013, 64286, 64286, 65024, 65039, 65056,
           65071, 66045, 66045, 66272, 66272, 66422, 66426, 68097, 68099,
           68101, 68102, 68108, 68111, 68152, 68154, 68159, 68159, 68325,
           68326, 68900, 68903, 69291, 69292, 69373, 69375, 69446, 69456,
           69506, 69509, 69632, 69634, 69688, 69702, 69744, 69744, 69747,
           69748, 69759, 69762, 69808, 69818, 69826, 69826, 69888, 69890,
           69927, 69940, 69957, 69958, 70003, 70003, 70016, 70018, 70067,
           70080, 70089, 70092, 70094, 70095, 70188, 70199, 70206, 70206,
           70209, 70209, 70367, 70378, 70400, 70403, 70459, 70460, 70462,
           70468, 70471, 70472, 70475, 70477, 70487, 70487, 70498, 70499,
           70502, 70508, 70512, 70516, 70709, 70726, 70750, 70750, 70832,
           70851, 71087, 71093, 71096, 71104, 71132, 71133, 71216, 71232,
           71339, 71351, 71453, 71467, 71724, 71738, 71984, 71989, 71991,
           71992, 71995, 71998, 72000, 72000, 72002, 72003, 72145, 72151,
           72154, 72160, 72164, 72164, 72193, 72202, 72243, 72249, 72251,
           72254, 72263, 72263, 72273, 72283, 72330, 72345, 72751, 72758,
           72760, 72767, 72850, 72871, 72873, 72886, 73009, 73014, 73018,
           73018, 73020, 73021, 73023, 73029, 73031, 73031, 73098, 73102,
           73104, 73105, 73107, 73111, 73459, 73462, 73472, 73473, 73475,
           73475, 73524, 73530, 73534, 73538, 78912, 78912, 78919, 78933,
           92912, 92916, 92976, 92982, 94031, 94031, 94033, 94087, 94095,
           94098, 94180, 94180, 94192, 94193, 113821, 113822, 118528, 118573,
           118576, 118598, 119141, 119145, 119149, 119154, 119163, 119170,
           119173, 119179, 119210, 119213, 119362, 119364, 121344, 121398,
           121403, 121452, 121461, 121461, 121476, 121476, 121499, 121503,
           121505, 121519, 122880, 122886, 122888, 122904, 122907, 122913,
           122915, 122916, 122918, 122922, 123023, 123023, 123184, 123190,
           123566, 123566, 123628, 123631, 124140, 124143, 125136, 125142,
           125252, 125258, 917760, 917999>>
    [] name = <<77, 99>> ->      \* Mc
         <<2307, 2307, 2363, 2363, 2366, 2368, 2377, 2380, 2382, 2383, 2434,
           2435, 2494, 2496, 2503, 2504, 2507, 2508, 2519, 2519, 2563, 2563,
           2622, 2624, 2691, 2691, 2750, 2752, 2761, 2761, 2763, 2764, 2818,
           2819, 2878, 2878, 2880, 2880, 2887, 2888, 2891, 2892, 2903, 2903,
           3006, 3007, 3009, 3010, 3014, 3016, 3018, 3020, 3031, 3031, 3073,
           3075, 3137, 3140, 3202, 3203, 3262, 3262, 3264, 3268, 3271, 3272,
           3274, 3275, 3285, 3286, 3315, 3315, 3330, 3331, 3390, 3392, 3398,
           3400, 3402, 3404, 3415, 3415, 3458, 3459, 3535, 3537, 3544, 3551,
           3570, 3571, 3902, 3903, 3967, 3967, 4139, 4140, 4145, 4145, 4152,
           4152, 4155, 4156, 4182, 4183, 4194, 4196, 4199, 4205, 4227, 4228,
           4231, 4236, 4239, 4239, 4250, 4252, 5909, 5909, 5940, 5940, 6070,
           6070, 6078, 6085, 6087, 6088, 6435, 6438, 6441, 6443, 6448, 6449,
           6451, 6456, 6681, 6682, 6741, 6741, 6743, 6743, 6753, 6753, 6755,
           6756, 6765, 6770, 6916, 6916, 6965, 6965, 6971, 6971, 6973, 6977,
           6979, 6980, 7042, 7042, 7073, 7073, 7078, 7079, 7082, 7082, 7143,
           7143, 7146, 7148, 7150, 7150, 7154, 7155, 7204, 7211, 7220, 7221,
           7393, 7393, 7415, 7415, 12334, 12335, 43043, 43044, 43047, 43047,
           43136, 43137, 43188, 43203, 43346, 43347, 43395, 43395, 43444,
           43445, 43450, 43451, 43454, 43456, 43567, 43568, 43571, 43572,
           43597, 43597, 43643, 43643, 43645, 43645, 43755, 43755, 43758,
           43759, 43765, 43765, 44003, 44004, 44006, 44007, 44009, 44010,
           44012, 44012, 69632, 69632, 69634, 69634, 69762, 69762, 69808,
           69810, 69815, 69816, 69932, 69932, 69957, 69958, 70018, 70018,
           70067, 70069, 70079, 70080, 70094, 70094, 70188, 70190, 70194,
           70195, 70197, 70197, 70368, 70370, 70402, 70403, 70462, 70463,
           70465, 70468, 70471, 70472, 70475, 70477, 70487, 70487, 70498,
           70499, 70709, 70711, 70720, 70721, 70725, 70725, 70832, 70834,
           70841, 70841, 70843, 70846, 70849, 70849, 71087, 71089, 71096,
           71099, 71102, 71102, 71216, 71218, 71227, 71228, 71230, 71230,
           71340, 71340, 71342, 71343, 71350, 71350, 71456, 71457, 71462,
           71462, 71724, 71726, 71736, 71736, 71984, 71989, 71991, 71992,
           71997, 71997, 72000, 72000, 72002, 72002, 72145, 72147, 72156,
           72159, 72164, 72164, 72249, 72249, 72279, 72280, 72343, 72343,
           72751, 72751, 72766, 72766, 72873, 72873, 72881, 72881, 72884,
           72884, 73098, 73102, 73107, 73108, 73110, 73110, 73461, 73462,
           73475, 73475, 73524, 73525, 73534, 73535, 73537, 73537, 94033,
           94087, 94192, 94193, 119141, 119142, 119149, 119154>>
    [] name = <<77, 101>> ->      \* Me
         <<1160, 1161, 6846, 6846, 8413, 8416, 8418, 8420, 42608, 42610>>
    [] name = <<77, 110>> ->      \* Mn
         <<768, 879, 1155, 1159, 1425, 1469, 1471, 1471, 1473, 1474, 1476,
           1477, 1479, 1479, 1552, 1562, 1611, 1631, 1648, 1648, 1750, 1756,
           1759, 1764, 1767, 1768, 1770, 1773, 1809, 1809, 1840, 1866, 1958,
           1968, 2027, 2035, 2045, 2045, 2070, 2073, 2075, 2083, 2085, 2087,
           2089, 2093, 2137, 2139, 2200, 2207, 2250, 2273, 2275, 2306, 2362,
           2362, 2364, 2364, 2369, 2376, 2381, 2381, 2385, 2391, 2402, 2403,
           2433, 2433, 2492, 2492, 2497, 2500, 2509, 2509, 2530, 2531, 2558,
           2558, 2561, 2562, 2620, 2620, 2625, 2626, 2631, 2632, 2635, 2637,
           2641, 2641, 2672, 2673, 2677, 2677, 2689, 2690, 2748, 2748, 2753,
           2757, 2759, 2760, 2765, 2765, 2786, 2787, 2810, 2815, 2817, 2817,
           2876, 2876, 2879, 2879, 2881, 2884, 2893, 2893, 2901, 2902, 2914,
           2915, 2946, 2946, 3008, 3008, 3021, 3021, 3072, 3072, 3076, 3076,
           3132, 3132, 3134, 3136, 3142, 3144, 3146, 3149, 3157, 3158, 3170,
           3171, 3201, 3201, 3260, 3260, 3263, 3263, 3270, 3270, 3276, 3277,
           3298, 3299, 3328, 3329, 3387, 3388, 3393, 3396, 3405, 3405, 3426,
           3427, 3457, 3457, 3530, 3530, 3538, 3540, 3542, 3542, 3633, 3633,
           3636, 3642, 3655, 3662, 3761, 3761, 3764, 3772, 3784, 3790, 3864,
           3865, 3893, 3893, 3895, 3895, 3897, 3897, 3953, 3966, 3968, 3972,
           3974, 3975, 3981, 3991, 3993, 4028, 4038, 4038, 4141, 4144, 4146,
           4151, 4153, 4154, 4157, 4158, 4184, 4185, 4190, 4192, 4209, 4212,
           4226, 4226, 4229, 4230, 4237, 4237, 4253, 4253, 4957, 4959, 5906,
           5908, 5938, 5939, 5970, 5971, 6002, 6003, 6068, 6069, 6071, 6077,
           6086, 6086, 6089, 6099, 6109, 6109, 6155, 6157, 6159, 6159, 6277,
           6278, 6313, 6313, 6432, 6434, 6439, 6440, 6450, 6450, 6457, 6459,
           6679, 6680, 6683, 6683, 6742, 6742, 6744, 6750, 6752, 6752, 6754,
           6754, 6757, 6764, 6771, 6780, 6783, 6783, 6832, 6845, 6847, 6862,
           6912, 6915, 6964, 6964, 6966, 6970, 6972, 6972, 6978, 6978, 7019,
           7027, 7040, 7041, 7074, 7077, 7080, 7081, 7083, 7085, 7142, 7142,
           7144, 7145, 7149, 7149, 7151, 7153, 7212, 7219, 7222, 7223, 7376,
           7378, 7380, 7392, 7394, 7400, 7405, 7405, 7412, 7412, 7416, 7417,
           7616, 7679, 8400, 8412, 8417, 8417, 8421, 8432, 11503, 11505,
           11647, 11647, 11744, 11775, 12330, 12333, 12441, 12442, 42607,
           42607, 42612, 42621, 42654, 42655, 42736, 42737, 43010, 43010,
           43014, 43014, 43019, 43019, 43045, 43046, 43052, 43052, 43204,
           43205, 43232, 43249, 43263, 43263, 43302, 43309, 43335, 43345,
           43392, 43394, 43443, 43443, 43446, 43449, 43452, 43453, 43493,
           43493, 43561, 43566, 43569, 43570, 43573, 43574, 43587, 43587,
           43596, 43596, 43644, 43644, 43696, 43696, 43698, 43700, 43703,
           43704, 43710, 43711, 43713, 43713, 43756, 43757, 43766, 43766,
           44005, 44005, 44008, 44008, 44013, 44013, 64286, 64286, 65024,
           65039, 65056, 65071, 66045, 66045, 66272, 66272, 66422, 66426,
           68097, 68099, 68101, 68102, 68108, 68111, 68152, 68154, 68159,
           68159, 68325, 68326, 68900, 68903, 69291, 69292, 69373, 69375,
           69446, 69456, 69506, 69509, 69633, 69633, 69688, 69702, 69744,
           69744, 69747, 69748, 69759, 69761, 69811, 69814, 69817, 69818,
           69826, 69826, 69888, 69890, 69927, 69931, 69933, 69940, 70003,
           70003, 70016, 70017, 70070, 70078, 70089, 70092, 70095, 70095,
           70191, 70193, 70196, 70196, 70198, 70199, 70206, 70206, 70209,
           70209, 70367, 70367, 70371, 70378, 70400, 70401, 70459, 70460,
           70464, 70464, 70502, 70508, 70512, 70516, 70712, 70719, 70722,
           70724, 70726, 70726, 70750, 70750, 70835, 70840, 70842, 70842,
           70847, 70848, 70850, 70851, 71090, 71093, 71100, 71101, 71103,
           71104, 71132, 71133, 71219, 71226, 71229, 71229, 71231, 71232,
           71339, 71339, 71341, 71341, 71344, 71349, 71351, 71351, 71453,
           71455, 71458, 71461, 71463, 71467, 71727, 71735, 71737, 71738,
           71995, 71996, 71998, 71998, 72003, 72003, 72148, 72151, 72154,
           72155, 72160, 72160, 72193, 72202, 72243, 72248, 72251, 72254,
           72263, 72263, 72273, 72278, 72281, 72283, 72330, 72342, 72344,
           72345, 72752, 72758, 72760, 72765, 72767, 72767, 72850, 72871,
           72874, 72880, 72882, 72883, 72885, 72886, 73009, 73014, 73018,
           73018, 73020, 73021, 73023, 73029, 73031, 73031, 73104, 73105,
           73109, 73109, 73111, 73111, 73459, 73460, 73472, 73473, 73526,
           73530, 73536, 73536, 73538, 73538, 78912, 78912, 78919, 78933,
           92912, 92916, 92976, 92982, 94031, 94031, 94095, 94098, 94180,
           94180, 113821, 113822, 118528, 118573, 118576, 118598, 119143,
           119145, 119163, 119170, 119173, 119179, 119210, 119213, 119362,
           119364, 121344, 121398, 121403, 121452, 121461, 121461, 121476,
           121476, 121499, 121503, 121505, 121519, 122880, 122886, 122888,
           122904, 122907, 122913, 122915, 122916, 122918, 122922, 123023,
           123023, 123184, 123190, 123566, 123566, 123628, 123631, 124140,
           124143, 125136, 125142, 125252, 125258, 917760, 917999>>
    [] name = <<78>> ->      \* N
         <<48, 57, 178, 179, 185, 185, 188, 190, 1632, 1641, 1776, 1785, 1984,
           1993, 2406, 2415, 2534, 2543, 2548, 2553, 2662, 2671, 2790, 2799,
           2918, 2927, 2930, 2935, 3046, 3058, 3174, 3183, 3192, 3198, 3302,
           3311, 3416, 3422, 3430, 3448, 3558, 3567, 3664, 3673, 3792, 3801,
           3872, 3891, 4160, 4169, 4240, 4249, 4969, 4988, 5870, 5872, 6112,
           6121, 6128, 6137, 6160, 6169, 6470, 6479, 6608, 6618, 6784, 6793,
           6800, 6809, 6992, 7001, 7088, 7097, 7232, 7241, 7248, 7257, 8304,
           8304, 8308, 8313, 8320, 8329, 8528, 8578, 8581, 8585, 9312, 9371,
           9450, 9471, 10102, 10131, 11517, 11517, 12295, 12295, 12321, 12329,
           12344, 12346, 12690, 12693, 12832, 12841, 12872, 12879, 12881,
           12895, 12928, 12937, 12977, 12991, 42528, 42537, 42726, 42735,
           43056, 43061, 43216, 43225, 43264, 43273, 43472, 43481, 43504,
           43513, 43600, 43609, 44016, 44025, 65296, 65305, 65799, 65843,
           65856, 65912, 65930, 65931, 66273, 66299, 66336, 66339, 66369,
           66369, 66378, 66378, 66513, 66517, 66720, 66729, 67672, 67679,
           67705, 67711, 67751, 67759, 67835, 67839, 67862, 67867, 68028,
           68029, 68032, 68047, 68050, 68095, 68160, 68168, 68221, 68222,
           68253, 68255, 68331, 68335, 68440, 68447, 68472, 68479, 68521,
           68527, 68858, 68863, 68912, 68921, 69216, 69246, 69405, 69414,
           69457, 69460, 69573, 69579, 69714, 69743, 69872, 69881, 69942,
           69951, 70096, 70105, 70113, 70132, 70384, 70393, 70736, 70745,
           70864, 70873, 71248, 71257, 71360, 71369, 71472, 71483, 71904,
           71922, 72016, 72025, 72784, 72812, 73040, 73049, 73120, 73129,
           73552, 73561, 73664, 73684, 74752, 74862, 92768, 92777, 92864,
           92873, 93008, 93017, 93019, 93025, 93824, 93846, 119488, 119507,
           119520, 119539, 119648, 119672, 120782, 120831, 123200, 123209,
           123632, 123641, 124144, 124153, 125127, 125135, 125264, 125273,
           126065, 126123, 126125, 126127, 126129, 126132, 126209, 126253,
           126255, 126269, 127232, 127244, 130032, 130041>>
    [] name = <<78, 100>> ->      \* Nd
         <<48, 57, 1632, 1641, 1776, 1785, 1984, 1993, 2406, 2415, 2534, 2543,
           2662, 2671, 2790, 2799, 2918, 2927, 3046, 3055, 3174, 3183, 3302,
           3311, 3430, 3439, 3558, 3567, 3664, 3673, 3792, 3801, 3872, 3881,
           4160, 4169, 4240, 4249, 6112, 6121, 6160, 6169, 6470, 6479, 6608,
           6617, 6784, 6793, 6800, 6809, 6992, 7001, 7088, 7097, 7232, 7241,
           7248, 7257, 42528, 42537, 43216, 43225, 43264, 43273, 43472, 43481,
           43504, 43513, 43600, 43609, 44016, 44025, 65296, 65305, 66720,
           66729, 68912, 68921, 69734, 69743, 69872, 69881, 69942, 69951,
           70096, 70105, 70384, 70393, 70736, 70745, 70864, 70873, 71248,
           71257, 71360, 71369, 71472, 71481, 71904, 71913, 72016, 72025,
           72784, 72793, 73040, 73049, 73120, 73129, 73552, 73561, 92768,
           92777, 92864, 92873, 93008, 93017, 120782, 120831, 123200, 123209,
           123632, 123641, 124144, 124153, 125264, 125273, 130032, 130041>>
    [] name = <<78, 108>> ->      \* Nl
         <<5870, 5872, 8544, 8578, 8581, 8584, 12295, 12295, 12321, 12329,
           12344, 12346, 42726, 42735, 65856, 65908, 66369, 66369, 66378,
           66378, 66513, 66517, 74752, 74862>>
    [] name = <<78, 111>> ->      \* No
         <<178, 179, 185, 185, 188, 190, 2548, 2553, 2930, 2935, 3056, 3058,
           3192, 3198, 3416, 3422, 3440, 3448, 3882, 3891, 4969, 4988, 6128,
           6137, 6618, 6618, 8304, 8304, 8308, 8313, 8320, 8329, 8528, 8543,
           8585, 8585, 9312, 9371, 9450, 9471, 10102, 10131, 11517, 11517,
           12690, 12693, 12832, 12841, 12872, 12879, 12881, 12895, 12928,
           12937, 12977, 12991, 43056, 43061, 65799, 65843, 65909, 65912,
           65930, 65931, 66273, 66299, 66336, 66339, 67672, 67679, 67705,
           67711, 67751, 67759, 67835, 67839, 67862, 67867, 68028, 68029,
           68032, 68047, 68050, 68095, 68160, 68168, 68221, 68222, 68253,
           68255, 68331, 68335, 68440, 68447, 68472, 68479, 68521, 68527,
           68858, 68863, 69216, 69246, 69405, 69414, 69457, 69460, 69573,
           69579, 69714, 69733, 70113, 70132, 71482, 71483, 71914, 71922,
           72794, 72812, 73664, 73684, 93019, 93025, 93824, 93846, 119488,
           119507, 119520, 119539, 119648, 119672, 125127, 125135, 126065,
           126123, 126125, 126127, 126129, 126132, 126209, 126253, 126255,
           126269, 127232, 127244>>
    [] name = <<80>> ->      \* P
         <<33, 35, 37, 42, 44, 47, 58, 59, 63, 64, 91, 93, 95, 95, 123, 123,
           125, 125, 161, 161, 167, 167, 171, 171, 182, 183, 187, 187, 191,
           191, 894, 894, 903, 903, 1370, 1375, 1417, 1418, 1470, 1470, 1472,
           1472, 1475, 1475, 1478, 1478, 1523, 1524, 1545, 1546, 1548, 1549,
           1563, 1563, 1565, 1567, 1642, 1645, 1748, 1748, 1792, 1805, 2039,
           2041, 2096, 2110, 2142, 2142, 2404, 2405, 2416, 2416, 2557, 2557,
           2678, 2678, 2800, 2800, 3191, 3191, 3204, 3204, 3572, 3572, 3663,
           3663, 3674, 3675, 3844, 3858, 3860, 3860, 3898, 3901, 3973, 3973,
           4048, 4052, 4057, 4058, 4170, 4175, 4347, 4347, 4960, 4968, 5120,
           5120, 5742, 5742, 5787, 5788, 5867, 5869, 5941, 5942, 6100, 6102,
           6104, 6106, 6144, 6154, 6468, 6469, 6686, 6687, 6816, 6822, 6824,
           6829, 7002, 7008, 7037, 7038, 7164, 7167, 7227, 7231, 7294, 7295,
           7360, 7367, 7379, 7379, 8208, 8231, 8240, 8259, 8261, 8273, 8275,
           8286, 8317, 8318, 8333, 8334, 8968, 8971, 9001, 9002, 10088, 10101,
           10181, 10182, 10214, 10223, 10627, 10648, 10712, 10715, 10748,
           10749, 11513, 11516, 11518, 11519, 11632, 11632, 11776, 11822,
           11824, 11855, 11858, 11869, 12289, 12291, 12296, 12305, 12308,
           12319, 12336, 12336, 12349, 12349, 12448, 12448, 12539, 12539,
           42238, 42239, 42509, 42511, 42611, 42611, 42622, 42622, 42738,
           42743, 43124, 43127, 43214, 43215, 43256, 43258, 43260, 43260,
           43310, 43311, 43359, 43359, 43457, 43469, 43486, 43487, 43612,
           43615, 43742, 43743, 43760, 43761, 44011, 44011, 64830, 64831,
           65040, 65049, 65072, 65106, 65108, 65121, 65123, 65123, 65128,
           65128, 65130, 65131, 65281, 65283, 65285, 65290, 65292, 65295,
           65306, 65307, 65311, 65312, 65339, 65341, 65343, 65343, 65371,
           65371, 65373, 65373, 65375, 65381, 65792, 65794, 66463, 66463,
           66512, 66512, 66927, 66927, 67671, 67671, 67871, 67871, 67903,
           67903, 68176, 68184, 68223, 68223, 68336, 68342, 68409, 68415,
           68505, 68508, 69293, 69293, 69461, 69465, 69510, 69513, 69703,
           69709, 69819, 69820, 69822, 69825, 69952, 69955, 70004, 70005,
           70085, 70088, 70093, 70093, 70107, 70107, 70109, 70111, 70200,
           70205, 70313, 70313, 70731, 70735, 70746, 70747, 70749, 70749,
           70854, 70854, 71105, 71127, 71233, 71235, 71264, 71276, 71353,
           71353, 71484, 71486, 71739, 71739, 72004, 72006, 72162, 72162,
           72255, 72262, 72346, 72348, 72350, 72354, 72448, 72457, 72769,
           72773, 72816, 72817, 73463, 73464, 73539, 73551, 73727, 73727,
           74864, 74868, 77809, 77810, 92782, 92783, 92917, 92917, 92983,
           92987, 92996, 92996, 93847, 93850, 94178, 94178, 113823, 113823,
           121479, 121483, 125278, 125279>>
    [] name = <<80, 99>> ->      \* Pc
         <<95, 95, 8255, 8256, 8276, 8276, 65075, 65076, 65101, 65103, 65343,
           65343>>
    [] name = <<80, 100>> ->      \* Pd
         <<45, 45, 1418, 1418, 1470, 1470, 5120, 5120, 6150, 6150, 8208, 8213,
           11799, 11799, 11802, 11802, 11834, 11835, 11840, 11840, 11869,
           11869, 12316, 12316, 12336, 12336, 12448, 12448, 65073, 65074,
           65112, 65112, 65123, 65123, 65293, 65293, 69293, 69293>>
    [] name = <<80, 101>> ->      \* Pe
         <<41, 41, 93, 93, 125, 125, 3899, 3899, 3901, 3901, 5788, 5788, 8262,
           8262, 8318, 8318, 8334, 8334, 8969, 8969, 8971, 8971, 9002, 9002,
           10089, 10089, 10091, 10091, 10093, 10093, 10095, 10095, 10097,
           10097, 10099, 10099, 10101, 10101, 10182, 10182, 10215, 10215,
           10217, 10217, 10219, 10219, 10221, 10221, 10223, 10223, 10628,
           10628, 10630, 10630, 10632, 10632, 10634, 10634, 10636, 10636,
           10638, 10638, 10640, 10640, 10642, 10642, 10644, 10644, 10646,
           10646, 10648, 10648, 10713, 10713, 10715, 10715, 10749, 10749,
           11811, 11811, 11813, 11813, 11815, 11815, 11817, 11817, 11862,
           11862, 11864, 11864, 11866, 11866, 11868, 11868, 12297, 12297,
           12299, 12299, 12301, 12301, 12303, 12303, 12305, 12305, 12309,
           12309, 12311, 12311, 12313, 12313, 12315, 12315, 12318, 12319,
           64830, 64830, 65048, 65048, 65078, 65078, 65080, 65080, 65082,
           65082, 65084, 65084, 65086, 65086, 65088, 65088, 65090, 65090,
           65092, 65092, 65096, 65096, 65114, 65114, 65116, 65116, 65118,
           65118, 65289, 65289, 65341, 65341, 65373, 65373, 65376, 65376,
           65379, 65379>>
    [] name = <<80, 102>> ->      \* Pf
         <<187, 187, 8217, 8217, 8221, 8221, 8250, 8250, 11779, 11779, 11781,
           11781, 11786, 11786, 11789, 11789, 11805, 11805, 11809, 11809>>
    [] name = <<80, 105>> ->      \* Pi
         <<171, 171, 8216, 8216, 8219, 8220, 8223, 8223, 8249, 8249, 11778,
           11778, 11780, 11780, 11785, 11785, 11788, 11788, 11804, 11804,
           11808, 11808>>
    [] name = <<80, 111>> ->      \* Po
         <<33, 35, 37, 39, 42, 42, 44, 44, 46, 47, 58, 59, 63, 64, 92, 92,
           161, 161, 167, 167, 182, 183, 191, 191, 894, 894, 903, 903, 1370,
           1375, 1417, 1417, 1472, 1472, 1475, 1475, 1478, 1478, 1523, 1524,
           1545, 1546, 1548, 1549, 1563, 1563, 1565, 1567, 1642, 1645, 1748,
           1748, 1792, 1805, 2039, 2041, 2096, 2110, 2142, 2142, 2404, 2405,
           2416, 2416, 2557, 2557, 2678, 2678, 2800, 2800, 3191, 3191, 3204,
           3204, 3572, 3572, 3663, 3663, 3674, 3675, 3844, 3858, 3860, 3860,
           3973, 3973, 4048, 4052, 4057, 4058, 4170, 4175, 4347, 4347, 4960,
           4968, 5742, 5742, 5867, 5869, 5941, 5942, 6100, 6102, 6104, 6106,
           6144, 6149, 6151, 6154, 6468, 6469, 6686, 6687, 6816, 6822, 6824,
           6829, 7002, 7008, 7037, 7038, 7164, 7167, 7227, 7231, 7294, 7295,
           7360, 7367, 7379, 7379, 8214, 8215, 8224, 8231, 8240, 8248, 8251,
           8254, 8257, 8259, 8263, 8273, 8275, 8275, 8277, 8286, 11513, 11516,
           11518, 11519, 11632, 11632, 11776, 11777, 11782, 11784, 11787,
           11787, 11790, 11798, 11800, 11801, 11803, 11803, 11806, 11807,
           11818, 11822, 11824, 11833, 11836, 11839, 11841, 11841, 11843,
           11855, 11858, 11860, 12289, 12291, 12349, 12349, 12539, 12539,
           42238, 42239, 42509, 42511, 42611, 42611, 42622, 42622, 42738,
           42743, 43124, 43127, 43214, 43215, 43256, 43258, 43260, 43260,
           43310, 43311, 43359, 43359, 43457, 43469, 43486, 43487, 43612,
           43615, 43742, 43743, 43760, 43761, 44011, 44011, 65040, 65046,
           65049, 65049, 65072, 65072, 65093, 65094, 65097, 65100, 65104,
           65106, 65108, 65111, 65119, 65121, 65128, 65128, 65130, 65131,
           65281, 65283, 65285, 65287, 65290, 65290, 65292, 65292, 65294,
           65295, 65306, 65307, 65311, 65312, 65340, 65340, 65377, 65377,
           65380, 65381, 65792, 65794, 66463, 66463, 66512, 66512, 66927,
           66927, 67671, 67671, 67871, 67871, 67903, 67903, 68176, 68184,
           68223, 68223, 68336, 68342, 68409, 68415, 68505, 68508, 69461,
           69465, 69510, 69513, 69703, 69709, 69819, 69820, 69822, 69825,
           69952, 69955, 70004, 70005, 70085, 70088, 70093, 70093, 70107,
           70107, 70109, 70111, 70200, 70205, 70313, 70313, 70731, 70735,
           70746, 70747, 70749, 70749, 70854, 70854, 71105, 71127, 71233,
           71235, 71264, 71276, 71353, 71353, 71484, 71486, 71739, 71739,
           72004, 72006, 72162, 72162, 72255, 72262, 72346, 72348, 72350,
           72354, 72448, 72457, 72769, 72773, 72816, 72817, 73463, 73464,
           73539, 73551, 73727, 73727, 74864, 74868, 77809, 77810, 92782,
           92783, 92917, 92917, 92983, 92987, 92996, 92996, 93847, 93850,
           94178, 94178, 113823, 113823, 121479, 121483, 125278, 125279>>
    [] name = <<80, 115>> ->      \* Ps
         <<40, 40, 91, 91, 123, 123, 3898, 3898, 3900, 3900, 5787, 5787, 8218,
           8218, 8222, 8222, 8261, 8261, 8317, 8317, 8333, 8333, 8968, 8968,
           8970, 8970, 9001, 9001, 10088, 10088, 10090, 10090, 10092, 10092,
           10094, 10094, 10096, 10096, 10098, 10098, 10100, 10100, 10181,
           10181, 10214, 10214, 10216, 10216, 10218, 10218, 10220, 10220,
           10222, 10222, 10627, 10627, 10629, 10629, 10631, 10631, 10633,
           10633, 10635, 10635, 10637, 10637, 10639, 10639, 10641, 10641,
           10643, 10643, 10645, 10645, 10647, 10647, 10712, 10712, 10714,
           10714, 10748, 10748, 11810, 11810, 11812, 11812, 11814, 11814,
           11816, 11816, 11842, 11842, 11861, 11861, 11863, 11863, 11865,
           11865, 11867, 11867, 12296, 12296, 12298, 12298, 12300, 12300,
           12302, 12302, 12304, 12304, 12308, 12308, 12310, 12310, 12312,
           12312, 12314, 12314, 12317, 12317, 64831, 64831, 65047, 65047,
           65077, 65077, 65079, 65079, 65081, 65081, 65083, 65083, 65085,
           65085, 65087, 65087, 65089, 65089, 65091, 65091, 65095, 65095,
           65113, 65113, 65115, 65115, 65117, 65117, 65288, 65288, 65339,
           65339, 65371, 65371, 65375, 65375, 65378, 65378>>
    [] name = <<83>> ->      \* S
         <<36, 36, 43, 43, 60, 62, 94, 94, 96, 96, 124, 124, 126, 126, 162,
           166, 168, 169, 172, 172, 174, 177, 180, 180, 184, 184, 215, 215,
           247, 247, 706, 709, 722, 735, 741, 747, 749, 749, 751, 767, 885,
           885, 900, 901, 1014, 1014, 1154, 1154, 1421, 1423, 1542, 1544,
           1547, 1547, 1550, 1551, 1758, 1758, 1769, 1769, 1789, 1790, 2038,
           2038, 2046, 2047, 2184, 2184, 2546, 2547, 2554, 2555, 2801, 2801,
           2928, 2928, 3059, 3066, 3199, 3199, 3407, 3407, 3449, 3449, 3647,
           3647, 3841, 3843, 3859, 3859, 3861, 3863, 3866, 3871, 3892, 3892,
           3894, 3894, 3896, 3896, 4030, 4037, 4039, 4044, 4046, 4047, 4053,
           4056, 4254, 4255, 5008, 5017, 5741, 5741, 6107, 6107, 6464, 6464,
           6622, 6655, 7009, 7018, 7028, 7036, 8125, 8125, 8127, 8129, 8141,
           8143, 8157, 8159, 8173, 8175, 8189, 8190, 8260, 8260, 8274, 8274,
           8314, 8316, 8330, 8332, 8352, 8384, 8448, 8449, 8451, 8454, 8456,
           8457, 8468, 8468, 8470, 8472, 8478, 8483, 8485, 8485, 8487, 8487,
           8489, 8489, 8494, 8494, 8506, 8507, 8512, 8516, 8522, 8525, 8527,
           8527, 8586, 8587, 8592, 8967, 8972, 9000, 9003, 9254, 9280, 9290,
           9372, 9449, 9472, 10087, 10132, 10180, 10183, 10213, 10224, 10626,
           10649, 10711, 10716, 10747, 10750, 11123, 11126, 11157, 11159,
           11263, 11493, 11498, 11856, 11857, 11904, 11929, 11931, 12019,
           12032, 12245, 12272, 12283, 12292, 12292, 12306, 12307, 12320,
           12320, 12342, 12343, 12350, 12351, 12443, 12444, 12688, 12689,
           12694, 12703, 12736, 12771, 12800, 12830, 12842, 12871, 12880,
           12880, 12896, 12927, 12938, 12976, 12992, 13311, 19904, 19967,
           42128, 42182, 42752, 42774, 42784, 42785, 42889, 42890, 43048,
           43051, 43062, 43065, 43639, 43641, 43867, 43867, 43882, 43883,
           64297, 64297, 64434, 64450, 64832, 64847, 64975, 64975, 65020,
           65023, 65122, 65122, 65124, 65126, 65129, 65129, 65284, 65284,
           65291, 65291, 65308, 65310, 65342, 65342, 65344, 65344, 65372,
           65372, 65374, 65374, 65504, 65510, 65512, 65518, 65532, 65533,
           65847, 65855, 65913, 65929, 65932, 65934, 65936, 65948, 65952,
           65952, 66000, 66044, 67703, 67704, 68296, 68296, 71487, 71487,
           73685, 73713, 92988, 92991, 92997, 92997, 113820, 113820, 118608,
           118723, 118784, 119029, 119040, 119078, 119081, 119140, 119146,
           119148, 119171, 119172, 119180, 119209, 119214, 119274, 119296,
           119361, 119365, 119365, 119552, 119638, 120513, 120513, 120539,
           120539, 120571, 120571, 120597, 120597, 120629, 120629, 120655,
           120655, 120687, 120687, 120713, 120713, 120745, 120745, 120771,
           120771, 120832, 121343, 121399, 121402, 121453, 121460, 121462,
           121475, 121477, 121478, 123215, 123215, 123647, 123647, 126124,
           126124, 126128, 126128, 126254, 126254, 126704, 126705, 126976,
           127019, 127024, 127123, 127136, 127150, 127153, 127167, 127169,
           127183, 127185, 127221, 127245, 127405, 127462, 127490, 127504,
           127547, 127552, 127560, 127568, 127569, 127584, 127589, 127744,
           128727, 128732, 128748, 128752, 128764, 128768, 128886, 128891,
           128985, 128992, 129003, 129008, 129008, 129024, 129035, 129040,
           129095, 129104, 129113, 129120, 129159, 129168, 129197, 129200,
           129201, 129280, 129619, 129632, 129645, 129648, 129660, 129664,
           129672, 129680, 129725, 129727, 129733, 129742, 129755, 129760,
           129768, 129776, 129784, 129792, 129938, 129940, 129994>>
    [] name = <<83, 99>> ->      \* Sc
         <<36, 36, 162, 165, 1423, 1423, 1547, 1547, 2046, 2047, 2546, 2547,
           2555, 2555, 2801, 2801, 3065, 3065, 3647, 3647, 6107, 6107, 8352,
           8384, 43064, 43064, 65020, 65020, 65129, 65129, 65284, 65284,
           65504, 65505, 65509, 65510, 73693, 73696, 123647, 123647, 126128,
           126128>>
    [] name = <<83, 107>> ->      \* Sk
         <<94, 94, 96, 96, 168, 168, 175, 175, 180, 180, 184, 184, 706, 709,
           722, 735, 741, 747, 749, 749, 751, 767, 885, 885, 900, 901, 2184,
           2184, 8125, 8125, 8127, 8129, 8141, 8143, 8157, 8159, 8173, 8175,
           8189, 8190, 12443, 12444, 42752, 42774, 42784, 42785, 42889, 42890,
           43867, 43867, 43882, 43883, 64434, 64450, 65342, 65342, 65344,
           65344, 65507, 65507, 127995, 127999>>
    [] name = <<83, 109>> ->      \* Sm
         <<43, 43, 60, 62, 124, 124, 126, 126, 172, 172, 177, 177, 215, 215,
           247, 247, 1014, 1014, 1542, 1544, 8260, 8260, 8274, 8274, 8314,
           8316, 8330, 8332, 8472, 8472, 8512, 8516, 8523, 8523, 8592, 8596,
           8602, 8603, 8608, 8608, 8611, 8611, 8614, 8614, 8622, 8622, 8654,
           8655, 8658, 8658, 8660, 8660, 8692, 8959, 8992, 8993, 9084, 9084,
           9115, 9139, 9180, 9185, 9655, 9655, 9665, 9665, 9720, 9727, 9839,
           9839, 10176, 10180, 10183, 10213, 10224, 10239, 10496, 10626,
           10649, 10711, 10716, 10747, 10750, 11007, 11056, 11076, 11079,
           11084, 64297, 64297, 65122, 65122, 65124, 65126, 65291, 65291,
           65308, 65310, 65372, 65372, 65374, 65374, 65506, 65506, 65513,
           65516, 120513, 120513, 120539, 120539, 120571, 120571, 120597,
           120597, 120629, 120629, 120655, 120655, 120687, 120687, 120713,
           120713, 120745, 120745, 120771, 120771, 126704, 126705>>
    [] name = <<83, 111>> ->      \* So
         <<166, 166, 169, 169, 174, 174, 176, 176, 1154, 1154, 1421, 1422,
           1550, 1551, 1758, 1758, 1769, 1769, 1789, 1790, 2038, 2038, 2554,
           2554, 2928, 2928, 3059, 3064, 3066, 3066, 3199, 3199, 3407, 3407,
           3449, 3449, 3841, 3843, 3859, 3859, 3861, 3863, 3866, 3871, 3892,
           3892, 3894, 3894, 3896, 3896, 4030, 4037, 4039, 4044, 4046, 4047,
           4053, 4056, 4254, 4255, 5008, 5017, 5741, 5741, 6464, 6464, 6622,
           6655, 7009, 7018, 7028, 7036, 8448, 8449, 8451, 8454, 8456, 8457,
           8468, 8468, 8470, 8471, 8478, 8483, 8485, 8485, 8487, 8487, 8489,
           8489, 8494, 8494, 8506, 8507, 8522, 8522, 8524, 8525, 8527, 8527,
           8586, 8587, 8597, 8601, 8604, 8607, 8609, 8610, 8612, 8613, 8615,
           8621, 8623, 8653, 8656, 8657, 8659, 8659, 8661, 8691, 8960, 8967,
           8972, 8991, 8994, 9000, 9003, 9083, 9085, 9114, 9140, 9179, 9186,
           9254, 9280, 9290, 9372, 9449, 9472, 9654, 9656, 9664, 9666, 9719,
           9728, 9838, 9840, 10087, 10132, 10175, 10240, 10495, 11008, 11055,
           11077, 11078, 11085, 11123, 11126, 11157, 11159, 11263, 11493,
           11498, 11856, 11857, 11904, 11929, 11931, 12019, 12032, 12245,
           12272, 12283, 12292, 12292, 12306, 12307, 12320, 12320, 12342,
           12343, 12350, 12351, 12688, 12689, 12694, 12703, 12736, 12771,
           12800, 12830, 12842, 12871, 12880, 12880, 12896, 12927, 12938,
           12976, 12992, 13311, 19904, 19967, 42128, 42182, 43048, 43051,
           43062, 43063, 43065, 43065, 43639, 43641, 64832, 64847, 64975,
           64975, 65021, 65023, 65508, 65508, 65512, 65512, 65517, 65518,
           65532, 65533, 65847, 65855, 65913, 65929, 65932, 65934, 65936,
           65948, 65952, 65952, 66000, 66044, 67703, 67704, 68296, 68296,
           71487, 71487, 73685, 73692, 73697, 73713, 92988, 92991, 92997,
           92997, 113820, 113820, 118608, 118723, 118784, 119029, 119040,
           119078, 119081, 119140, 119146, 119148, 119171, 119172, 119180,
           119209, 119214, 119274, 119296, 119361, 119365, 119365, 119552,
           119638, 120832, 121343, 121399, 121402, 121453, 121460, 121462,
           121475, 121477, 121478, 123215, 123215, 126124, 126124, 126254,
           126254, 126976, 127019, 127024, 127123, 127136, 127150, 127153,
           127167, 127169, 127183, 127185, 127221, 127245, 127405, 127462,
           127490, 127504, 127547, 127552, 127560, 127568, 127569, 127584,
           127589, 127744, 127994, 128000, 128727, 128732, 128748, 128752,
           128764, 128768, 128886, 128891, 128985, 128992, 129003, 129008,
           129008, 129024, 129035, 129040, 129095, 129104, 129113, 129120,
           129159, 129168, 129197, 129200, 129201, 129280, 129619, 129632,
           129645, 129648, 129660, 129664, 129672, 129680, 129725, 129727,
           129733, 129742, 129755, 129760, 129768, 129776, 129784, 129792,
           129938, 129940, 129994>>
    [] name = <<90>> ->      \* Z
         <<32, 32, 160, 160, 5760, 5760, 8192, 8202, 8232, 8233, 8239, 8239,
           8287, 8287, 12288, 12288>>
    [] name = <<90, 108>> ->      \* Zl
         <<8232, 8232>>
    [] name = <<90, 112>> ->      \* Zp
         <<8233, 8233>>
    [] name = <<90, 115>> ->      \* Zs
         <<32, 32, 160, 160, 5760, 5760, 8192, 8202, 8239, 8239, 8287, 8287,
           12288, 12288>>
    [] OTHER -> <<>>

(* unicode.Scripts: the table of the script of the name.                    *)
Scripts(name) ==
  CASE name = <<65, 100, 108, 97, 109>> ->      \* Adlam
         <<125184, 125259, 125264, 125273, 125278, 125279>>
    [] name = <<65, 104, 111, 109>> ->      \* Ahom
         <<71424, 71450, 71453, 71467, 71472, 71494>>
    [] name = <<65, 110, 97, 116, 111, 108, 105, 97, 110, 95, 72, 105, 101, 114, 111, 103, 108, 121, 112, 104, 115>> ->      \* Anatolian_Hieroglyphs
         <<82944, 83526>>
    [] name = <<65, 114, 97, 98, 105, 99>> ->      \* Arabic
         <<1536, 1540, 1542, 1547, 1549, 1562, 1564, 1566, 1568, 1599, 1601,
           1610, 1622, 1647, 1649, 1756, 1758, 1791, 1872, 1919, 2160, 2190,
           2192, 2193, 2200, 2273, 2275, 2303, 64336, 64450, 64467, 64829,
           64832, 64911, 64914, 64967, 64975, 64975, 65008, 65023, 65136,
           65140, 65142, 65276, 69216, 69246, 69373, 69375, 126464, 126467,
           126469, 126495, 126497, 126498, 126500, 126500, 126503, 126503,
           126505, 126514, 126516, 126519, 126521, 126521, 126523, 126523,
           126530, 126530, 126535, 126535, 126537, 126537, 126539, 126539,
           126541, 126543, 126545, 126546, 126548, 126548, 126551, 126551,
           126553, 126553, 126555, 126555, 126557, 126557, 126559, 126559,
           126561, 126562, 126564, 126564, 126567, 126570, 126572, 126578,
           126580, 126583, 126585, 126588, 126590, 126590, 126592, 126601,
           126603, 126619, 126625, 126627, 126629, 126633, 126635, 126651,
           126704, 126705>>
    [] name = <<65, 114, 109, 101, 110, 105, 97, 110>> ->      \* Armenian
         <<1329, 1366, 1369, 1418, 1421, 1423, 64275, 64279>>
    [] name = <<65, 118, 101, 115, 116, 97, 110>> ->      \* Avestan
         <<68352, 68405, 68409, 68415>>
    [] name = <<66, 97, 108, 105, 110, 101, 115, 101>> ->      \* Balinese
         <<6912, 6988, 6992, 7038>>
    [] name = <<66, 97, 109, 117, 109>> ->      \* Bamum
         <<42656, 42743, 92160, 92728>>
    [] name = <<66, 97, 115, 115, 97, 95, 86, 97, 104>> ->      \* Bassa_Vah
         <<92880, 92909, 92912, 92917>>
    [] name = <<66, 97, 116, 97, 107>> ->      \* Batak
         <<7104, 7155, 7164, 7167>>
    [] name = <<66, 101, 110, 103, 97, 108, 105>> ->      \* Bengali
         <<2432, 2435, 2437, 2444, 2447, 2448, 2451, 2472, 2474, 2480, 2482,
           2482, 2486, 2489, 2492, 2500, 2503, 2504, 2507, 2510, 2519, 2519,
           2524, 2525, 2527, 2531, 2534, 2558>>
    [] name = <<66, 104, 97, 105, 107, 115, 117, 107, 105>> ->      \* Bhaiksuki
         <<72704, 72712, 72714, 72758, 72760, 72773, 72784, 72812>>
    [] name = <<66, 111, 112, 111, 109, 111, 102, 111>> ->      \* Bopomofo
         <<746, 747, 12549, 12591, 12704, 12735>>
    [] name = <<66, 114, 97, 104, 109, 105>> ->      \* Brahmi
         <<69632, 69709, 69714, 69749, 69759, 69759>>
    [] name = <<66, 114, 97, 105, 108, 108, 101>> ->      \* Braille
         <<10240, 10495>>
    [] name = <<66, 117, 103, 105, 110, 101, 115, 101>> ->      \* Buginese
         <<6656, 6683, 6686, 6687>>
    [] name = <<66, 117, 104, 105, 100>> ->      \* Buhid
         <<5952, 5971>>
    [] name = <<67, 97, 110, 97, 100, 105, 97, 110, 95, 65, 98, 111, 114, 105, 103, 105, 110, 97, 108>> ->      \* Canadian_Aboriginal
         <<5120, 5759, 6320, 6389, 72368, 72383>>
    [] name = <<67, 97, 114, 105, 97, 110>> ->      \* Carian
         <<66208, 66256>>
    [] name = <<67, 97, 117, 99, 97, 115, 105, 97, 110, 95, 65, 108, 98, 97, 110, 105, 97, 110>> ->      \* Caucasian_Albanian
         <<66864, 66915, 66927, 66927>>
    [] name = <<67, 104, 97, 107, 109, 97>> ->      \* Chakma
         <<69888, 69940, 69942, 69959>>
    [] name = <<67, 104, 97, 109>> ->      \* Cham
         <<43520, 43574, 43584, 43597, 43600, 43609, 43612, 43615>>
    [] name = <<67, 104, 101, 114, 111, 107, 101, 101>> ->      \* Cherokee
         <<5024, 5109, 5112, 5117, 43888, 43967>>
    [] name = <<67, 104, 111, 114, 97, 115, 109, 105, 97, 110>> ->      \* Chorasmian
         <<69552, 69579>>
    [] name = <<67, 111, 109, 109, 111, 110>> ->      \* Common
         <<0, 64, 91, 96, 123, 169, 171, 185, 187, 191, 215, 215, 247, 247,
           697, 735, 741, 745, 748, 767, 884, 884, 894, 894, 901, 901, 903,
           903, 1541, 1541, 1548, 1548, 1563, 1563, 1567, 1567, 1600, 1600,
           1757, 1757, 2274, 2274, 2404, 2405, 3647, 3647, 4053, 4056, 4347,
           4347, 5867, 5869, 5941, 5942, 6146, 6147, 6149, 6149, 7379, 7379,
           7393, 7393, 7401, 7404, 7406, 7411, 7413, 7415, 7418, 7418, 8192,
           8203, 8206, 8292, 8294, 8304, 8308, 8318, 8320, 8334, 8352, 8384,
           8448, 8485, 8487, 8489, 8492, 8497, 8499, 8525, 8527, 8543, 8585,
           8587, 8592, 9254, 9280, 9290, 9312, 10239, 10496, 11123, 11126,
           11157, 11159, 11263, 11776, 11869, 12272, 12283, 12288, 12292,
           12294, 12294, 12296, 12320, 12336, 12343, 12348, 12351, 12443,
           12444, 12448, 12448, 12539, 12540, 12688, 12703, 12736, 12771,
           12832, 12895, 12927, 13007, 13055, 13055, 13144, 13311, 19904,
           19967, 42752, 42785, 42888, 42890, 43056, 43065, 43310, 43310,
           43471, 43471, 43867, 43867, 43882, 43883, 64830, 64831, 65040,
           65049, 65072, 65106, 65108, 65126, 65128, 65131, 65279, 65279,
           65281, 65312, 65339, 65344, 65371, 65381, 65392, 65392, 65438,
           65439, 65504, 65510, 65512, 65518, 65529, 65533, 65792, 65794,
           65799, 65843, 65847, 65855, 65936, 65948, 66000, 66044, 66273,
           66299, 113824, 113827, 118608, 118723, 118784, 119029, 119040,
           119078, 119081, 119142, 119146, 119162, 119171, 119172, 119180,
           119209, 119214, 119274, 119488, 119507, 119520, 119539, 119552,
           119638, 119648, 119672, 119808, 119892, 119894, 119964, 119966,
           119967, 119970, 119970, 119973, 119974, 119977, 119980, 119982,
           119993, 119995, 119995, 119997, 120003, 120005, 120069, 120071,
           120074, 120077, 120084, 120086, 120092, 120094, 120121, 120123,
           120126, 120128, 120132, 120134, 120134, 120138, 120144, 120146,
           120485, 120488, 120779, 120782, 120831, 126065, 126132, 126209,
           126269, 126976, 127019, 127024, 127123, 127136, 127150, 127153,
           127167, 127169, 127183, 127185, 127221, 127232, 127405, 127462,
           127487, 127489, 127490, 127504, 127547, 127552, 127560, 127568,
           127569, 127584, 127589, 127744, 128727, 128732, 128748, 128752,
           128764, 128768, 128886, 128891, 128985, 128992, 129003, 129008,
           129008, 129024, 129035, 129040, 129095, 129104, 129113, 129120,
           129159, 129168, 129197, 129200, 129201, 129280, 129619, 129632,
           129645, 129648, 129660, 129664, 129672, 129680, 129725, 129727,
           129733, 129742, 129755, 129760, 129768, 129776, 129784, 129792,
           129938, 129940, 129994, 130032, 130041, 917505, 917505, 917536,
           917631>>
    [] name = <<67, 111, 112, 116, 105, 99>> ->      \* Coptic
         <<994, 1007, 11392, 11507, 11513, 11519>>
    [] name = <<67, 117, 110, 101, 105, 102, 111, 114, 109>> ->      \* Cuneiform
         <<73728, 74649, 74752, 74862, 74864, 74868, 74880, 75075>>
    [] name = <<67, 121, 112, 114, 105, 111, 116>> ->      \* Cypriot
         <<67584, 67589, 67592, 67592, 67594, 67637, 67639, 67640, 67644,
           67644, 67647, 67647>>
    [] name = <<67, 121, 112, 114, 111, 95, 77, 105, 110, 111, 97, 110>> ->      \* Cypro_Minoan
         <<77712, 77810>>
    [] name = <<67, 121, 114, 105, 108, 108, 105, 99>> ->      \* Cyrillic
         <<1024, 1156, 1159, 1327, 7296, 7304, 7467, 7467, 7544, 7544, 11744,
           11775, 42560, 42655, 65070, 65071, 122928, 122989, 123023, 123023>>
    [] name = <<68, 101, 115, 101, 114, 101, 116>> ->      \* Deseret
         <<66560, 66639>>
    [] name = <<68, 101, 118, 97, 110, 97, 103, 97, 114, 105>> ->      \* Devanagari
         <<2304, 2384, 2389, 2403, 2406, 2431, 43232, 43263, 72448, 72457>>
    [] name = <<68, 105, 118, 101, 115, 95, 65, 107, 117, 114, 117>> ->      \* Dives_Akuru
         <<71936, 71942, 71945, 71945, 71948, 71955, 71957, 71958, 71960,
           71989, 71991, 71992, 71995, 72006, 72016, 72025>>
    [] name = <<68, 111, 103, 114, 97>> ->      \* Dogra
         <<71680, 71739>>
    [] name = <<68, 117, 112, 108, 111, 121, 97, 110>> ->      \* Duployan
         <<113664, 113770, 113776, 113788, 113792, 113800, 113808, 113817,
           113820, 113823>>
    [] name = <<69, 103, 121, 112, 116, 105, 97, 110, 95, 72, 105, 101, 114, 111, 103, 108, 121, 112, 104, 115>> ->      \* Egyptian_Hieroglyphs
         <<77824, 78933>>
    [] name = <<69, 108, 98, 97, 115, 97, 110>> ->      \* Elbasan
         <<66816, 66855>>
    [] name = <<69, 108, 121, 109, 97, 105, 99>> ->      \* Elymaic
         <<69600, 69622>>
    [] name = <<69, 116, 104, 105, 111, 112, 105, 99>> ->      \* Ethiopic
         <<4608, 4680, 4682, 4685, 4688, 4694, 4696, 4696, 4698, 4701, 4704,
           4744, 4746, 4749, 4752, 4784, 4786, 4789, 4792, 4798, 4800, 4800,
           4802, 4805, 4808, 4822, 4824, 4880, 4882, 4885, 4888, 4954, 4957,
           4988, 4992, 5017, 11648, 11670, 11680, 11686, 11688, 11694, 11696,
           11702, 11704, 11710, 11712, 11718, 11720, 11726, 11728, 11734,
           11736, 11742, 43777, 43782, 43785, 43790, 43793, 43798, 43808,
           43814, 43816, 43822, 124896, 124902, 124904, 124907, 124909,
           124910, 124912, 124926>>
    [] name = <<71, 101, 111, 114, 103, 105, 97, 110>> ->      \* Georgian
         <<4256, 4293, 4295, 4295, 4301, 4301, 4304, 4346, 4348, 4351, 7312,
           7354, 7357, 7359, 11520, 11557, 11559, 11559, 11565, 11565>>
    [] name = <<71, 108, 97, 103, 111, 108, 105, 116, 105, 99>> ->      \* Glagolitic
         <<11264, 11359, 122880, 122886, 122888, 122904, 122907, 122913,
           122915, 122916, 122918, 122922>>
    [] name = <<71, 111, 116, 104, 105, 99>> ->      \* Gothic
         <<66352, 66378>>
    [] name = <<71, 114, 97, 110, 116, 104, 97>> ->      \* Grantha
         <<70400, 70403, 70405, 70412, 70415, 70416, 70419, 70440, 70442,
           70448, 70450, 70451, 70453, 70457, 70460, 70468, 70471, 70472,
           70475, 70477, 70480, 70480, 70487, 70487, 70493, 70499, 70502,
           70508, 70512, 70516>>
    [] name = <<71, 114, 101, 101, 107>> ->      \* Greek
         <<880, 883, 885, 887, 890, 893, 895, 895, 900, 900, 902, 902, 904,
           906, 908, 908, 910, 929, 931, 993, 1008, 1023, 7462, 7466, 7517,
           7521, 7526, 7530, 7615, 7615, 7936, 7957, 7960, 7965, 7968, 8005,
           8008, 8013, 8016, 8023, 8025, 8025, 8027, 8027, 8029, 8029, 8031,
           8061, 8064, 8116, 8118, 8132, 8134, 8147, 8150, 8155, 8157, 8175,
           8178, 8180, 8182, 8190, 8486, 8486, 43877, 43877, 65856, 65934,
           65952, 65952, 119296, 119365>>
    [] name = <<71, 117, 106, 97, 114, 97, 116, 105>> ->      \* Gujarati
         <<2689, 2691, 2693, 2701, 2703, 2705, 2707, 2728, 2730, 2736, 2738,
           2739, 2741, 2745, 2748, 2757, 2759, 2761, 2763, 2765, 2768, 2768,
           2784, 2787, 2790, 2801, 2809, 2815>>
    [] name = <<71, 117, 110, 106, 97, 108, 97, 95, 71, 111, 110, 100, 105>> ->      \* Gunjala_Gondi
         <<73056, 73061, 73063, 73064, 73066, 73102, 73104, 73105, 73107,
           73112, 73120, 73129>>
    [] name = <<71, 117, 114, 109, 117, 107, 104, 105>> ->      \* Gurmukhi
         <<2561, 2563, 2565, 2570, 2575, 2576, 2579, 2600, 2602, 2608, 2610,
           2611, 2613, 2614, 2616, 2617, 2620, 2620, 2622, 2626, 2631, 2632,
           2635, 2637, 2641, 2641, 2649, 2652, 2654, 2654, 2662, 2678>>
    [] name = <<72, 97, 110>> ->      \* Han
         <<11904, 11929, 11931, 12019, 12032, 12245, 12293, 12293, 12295,
           12295, 12321, 12329, 12344, 12347, 13312, 19903, 19968, 40959,
           63744, 64109, 64112, 64217, 94178, 94179, 94192, 94193, 131072,
           173791, 173824, 177977, 177984, 178205, 178208, 183969, 183984,
           191456, 194560, 195101, 196608, 201546, 201552, 205743>>
    [] name = <<72, 97, 110, 103, 117, 108>> ->      \* Hangul
         <<4352, 4607, 12334, 12335, 12593, 12686, 12800, 12830, 12896, 12926,
           43360, 43388, 44032, 55203, 55216, 55238, 55243, 55291, 65440,
           65470, 65474, 65479, 65482, 65487, 65490, 65495, 65498, 65500>>
    [] name = <<72, 97, 110, 105, 102, 105, 95, 82, 111, 104, 105, 110, 103, 121, 97>> ->      \* Hanifi_Rohingya
         <<68864, 68903, 68912, 68921>>
    [] name = <<72, 97, 110, 117, 110, 111, 111>> ->      \* Hanunoo
         <<5920, 5940>>
    [] name = <<72, 97, 116, 114, 97, 110>> ->      \* Hatran
         <<67808, 67826, 67828, 67829, 67835, 67839>>
    [] name = <<72, 101, 98, 114, 101, 119>> ->      \* Hebrew
         <<1425, 1479, 1488, 1514, 1519, 1524, 64285, 64310, 64312, 64316,
           64318, 64318, 64320, 64321, 64323, 64324, 64326, 64335>>
    [] name = <<72, 105, 114, 97, 103, 97, 110, 97>> ->      \* Hiragana
         <<12353, 12438, 12445, 12447, 110593, 110879, 110898, 110898, 110928,
           110930, 127488, 127488>>
    [] name = <<73, 109, 112, 101, 114, 105, 97, 108, 95, 65, 114, 97, 109, 97, 105, 99>> ->      \* Imperial_Aramaic
         <<67648, 67669, 67671, 67679>>
    [] name = <<73, 110, 104, 101, 114, 105, 116, 101, 100>> ->      \* Inherited
         <<768, 879, 1157, 1158, 1611, 1621, 1648, 1648, 2385, 2388, 6832,
           6862, 7376, 7378, 7380, 7392, 7394, 7400, 7405, 7405, 7412, 7412,
           7416, 7417, 7616, 7679, 8204, 8205, 8400, 8432, 12330, 12333,
           12441, 12442, 65024, 65039, 65056, 65069, 66045, 66045, 66272,
           66272, 70459, 70459, 118528, 118573, 118576, 118598, 119143,
           119145, 119163, 119170, 119173, 119179, 119210, 119213, 917760,
           917999>>
    [] name = <<73, 110, 115, 99, 114, 105, 112, 116, 105, 111, 110, 97, 108, 95, 80, 97, 104, 108, 97, 118, 105>> ->      \* Inscriptional_Pahlavi
         <<68448, 68466, 68472, 68479>>
    [] name = <<73, 110, 115, 99, 114, 105, 112, 116, 105, 111, 110, 97, 108, 95, 80, 97, 114, 116, 104, 105, 97, 110>> ->      \* Inscriptional_Parthian
         <<68416, 68437, 68440, 68447>>
    [] name = <<74, 97, 118, 97, 110, 101, 115, 101>> ->      \* Javanese
         <<43392, 43469, 43472, 43481, 43486, 43487>>
    [] name = <<75, 97, 105, 116, 104, 105>> ->      \* Kaithi
         <<69760, 69826, 69837, 69837>>
    [] name = <<75, 97, 110, 110, 97, 100, 97>> ->      \* Kannada
         <<3200, 3212, 3214, 3216, 3218, 3240, 3242, 3251, 3253, 3257, 3260,
           3268, 3270, 3272, 3274, 3277, 3285, 3286, 3293, 3294, 3296, 3299,
           3302, 3311, 3313, 3315>>
    [] name = <<75, 97, 116, 97, 107, 97, 110, 97>> ->      \* Katakana
         <<12449, 12538, 12541, 12543, 12784, 12799, 13008, 13054, 13056,
           13143, 65382, 65391, 65393, 65437, 110576, 110579, 110581, 110587,
           110589, 110590, 110592, 110592, 110880, 110882, 110933, 110933,
           110948, 110951>>
    [] name = <<75, 97, 119, 105>> ->      \* Kawi
         <<73472, 73488, 73490, 73530, 73534, 73561>>
    [] name = <<75, 97, 121, 97, 104, 95, 76, 105>> ->      \* Kayah_Li
         <<43264, 43309, 43311, 43311>>
    [] name = <<75, 104, 97, 114, 111, 115, 104, 116, 104, 105>> ->      \* Kharoshthi
         <<68096, 68099, 68101, 68102, 68108, 68115, 68117, 68119, 68121,
           68149, 68152, 68154, 68159, 68168, 68176, 68184>>
    [] name = <<75, 104, 105, 116, 97, 110, 95, 83, 109, 97, 108, 108, 95, 83, 99, 114, 105, 112, 116>> ->      \* Khitan_Small_Script
         <<94180, 94180, 101120, 101589>>
    [] name = <<75, 104, 109, 101, 114>> ->      \* Khmer
         <<6016, 6109, 6112, 6121, 6128, 6137, 6624, 6655>>
    [] name = <<75, 104, 111, 106, 107, 105>> ->      \* Khojki
         <<70144, 70161, 70163, 70209>>
    [] name = <<75, 104, 117, 100, 97, 119, 97, 100, 105>> ->      \* Khudawadi
         <<70320, 70378, 70384, 70393>>
    [] name = <<76, 97, 111>> ->      \* Lao
         <<3713, 3714, 3716, 3716, 3718, 3722, 3724, 3747, 3749, 3749, 3751,
           3773, 3776, 3780, 3782, 3782, 3784, 3790, 3792, 3801, 3804, 3807>>
    [] name = <<76, 97, 116, 105, 110>> ->      \* Latin
         <<65, 90, 97, 122, 170, 170, 186, 186, 192, 214, 216, 246, 248, 696,
           736, 740, 7424, 7461, 7468, 7516, 7522, 7525, 7531, 7543, 7545,
           7614, 7680, 7935, 8305, 8305, 8319, 8319, 8336, 8348, 8490, 8491,
           8498, 8498, 8526, 8526, 8544, 8584, 11360, 11391, 42786, 42887,
           42891, 42954, 42960, 42961, 42963, 42963, 42965, 42969, 42994,
           43007, 43824, 43866, 43868, 43876, 43878, 43881, 64256, 64262,
           65313, 65338, 65345, 65370, 67456, 67461, 67463, 67504, 67506,
           67514, 122624, 122654, 122661, 122666>>
    [] name = <<76, 101, 112, 99, 104, 97>> ->      \* Lepcha
         <<7168, 7223, 7227, 7241, 7245, 7247>>
    [] name = <<76, 105, 109, 98, 117>> ->      \* Limbu
         <<6400, 6430, 6432, 6443, 6448, 6459, 6464, 6464, 6468, 6479>>
    [] name = <<76, 105, 110, 101, 97, 114, 95, 65>> ->      \* Linear_A
         <<67072, 67382, 67392, 67413, 67424, 67431>>
    [] name = <<76, 105, 110, 101, 97, 114, 95, 66>> ->      \* Linear_B
         <<65536, 65547, 65549, 65574, 65576, 65594, 65596, 65597, 65599,
           65613, 65616, 65629, 65664, 65786>>
    [] name = <<76, 105, 115, 117>> ->      \* Lisu
         <<42192, 42239, 73648, 73648>>
    [] name = <<76, 121, 99, 105, 97, 110>> ->      \* Lycian
         <<66176, 66204>>
    [] name = <<76, 121, 100, 105, 97, 110>> ->      \* Lydian
         <<67872, 67897, 67903, 67903>>
    [] name = <<77, 97, 104, 97, 106, 97, 110, 105>> ->      \* Mahajani
         <<69968, 70006>>
    [] name = <<77, 97, 107, 97, 115, 97, 114>> ->      \* Makasar
         <<73440, 73464>>
    [] name = <<77, 97, 108, 97, 121, 97, 108, 97, 109>> ->      \* Malayalam
         <<3328, 3340, 3342, 3344, 3346, 3396, 3398, 3400, 3402, 3407, 3412,
           3427, 3430, 3455>>
    [] name = <<77, 97, 110, 100, 97, 105, 99>> ->      \* Mandaic
         <<2112, 2139, 2142, 2142>>
    [] name = <<77, 97, 110, 105, 99, 104, 97, 101, 97, 110>> ->      \* Manichaean
         <<68288, 68326, 68331, 68342>>
    [] name = <<77, 97, 114, 99, 104, 101, 110>> ->      \* Marchen
         <<72816, 72847, 72850, 72871, 72873, 72886>>
    [] name = <<77, 97, 115, 97, 114, 97, 109, 95, 71, 111, 110, 100, 105>> ->      \* Masaram_Gondi
         <<72960, 72966, 72968, 72969, 72971, 73014, 73018, 73018, 73020,
           73021, 73023, 73031, 73040, 73049>>
    [] name = <<77, 101, 100, 101, 102, 97, 105, 100, 114, 105, 110>> ->      \* Medefaidrin
         <<93760, 93850>>
    [] name = <<77, 101, 101, 116, 101, 105, 95, 77, 97, 121, 101, 107>> ->      \* Meetei_Mayek
         <<43744, 43766, 43968, 44013, 44016, 44025>>
    [] name = <<77, 101, 110, 100, 101, 95, 75, 105, 107, 97, 107, 117, 105>> ->      \* Mende_Kikakui
         <<124928, 125124, 125127, 125142>>
    [] name = <<77, 101, 114, 111, 105, 116, 105, 99, 95, 67, 117, 114, 115, 105, 118, 101>> ->      \* Meroitic_Cursive
         <<68000, 68023, 68028, 68047, 68050, 68095>>
    [] name = <<77, 101, 114, 111, 105, 116, 105, 99, 95, 72, 105, 101, 114, 111, 103, 108, 121, 112, 104, 115>> ->      \* Meroitic_Hieroglyphs
         <<67968, 67999>>
    [] name = <<77, 105, 97, 111>> ->      \* Miao
         <<93952, 94026, 94031, 94087, 94095, 94111>>
    [] name = <<77, 111, 100, 105>> ->      \* Modi
         <<71168, 71236, 71248, 71257>>
    [] name = <<77, 111, 110, 103, 111, 108, 105, 97, 110>> ->      \* Mongolian
         <<6144, 6145, 6148, 6148, 6150, 6169, 6176, 6264, 6272, 6314, 71264,
           71276>>
    [] name = <<77, 114, 111>> ->      \* Mro
         <<92736, 92766, 92768, 92777, 92782, 92783>>
    [] name = <<77, 117, 108, 116, 97, 110, 105>> ->      \* Multani
         <<70272, 70278, 70280, 70280, 70282, 70285, 70287, 70301, 70303,
           70313>>
    [] name = <<77, 121, 97, 110, 109, 97, 114>> ->      \* Myanmar
         <<4096, 4255, 43488, 43518, 43616, 43647>>
    [] name = <<78, 97, 98, 97, 116, 97, 101, 97, 110>> ->      \* Nabataean
         <<67712, 67742, 67751, 67759>>
    [] name = <<78, 97, 103, 95, 77, 117, 110, 100, 97, 114, 105>> ->      \* Nag_Mundari
         <<124112, 124153>>
    [] name = <<78, 97, 110, 100, 105, 110, 97, 103, 97, 114, 105>> ->      \* Nandinagari
         <<72096, 72103, 72106, 72151, 72154, 72164>>
    [] name = <<78, 101, 119, 95, 84, 97, 105, 95, 76, 117, 101>> ->      \* New_Tai_Lue
         <<6528, 6571, 6576, 6601, 6608, 6618, 6622, 6623>>
    [] name = <<78, 101, 119, 97>> ->      \* Newa
         <<70656, 70747, 70749, 70753>>
    [] name = <<78, 107, 111>> ->      \* Nko
         <<1984, 2042, 2045, 2047>>
    [] name = <<78, 117, 115, 104, 117>> ->      \* Nushu
         <<94177, 94177, 110960, 111355>>
    [] name = <<78, 121, 105, 97, 107, 101, 110, 103, 95, 80, 117, 97, 99, 104, 117, 101, 95, 72, 109, 111, 110, 103>> ->      \* Nyiakeng_Puachue_Hmong
         <<123136, 123180, 123184, 123197, 123200, 123209, 123214, 123215>>
    [] name = <<79, 103, 104, 97, 109>> ->      \* Ogham
         <<5760, 5788>>
    [] name = <<79, 108, 95, 67, 104, 105, 107, 105>> ->      \* Ol_Chiki
         <<7248, 7295>>
    [] name = <<79, 108, 100, 95, 72, 117, 110, 103, 97, 114, 105, 97, 110>> ->      \* Old_Hungarian
         <<68736, 68786, 68800, 68850, 68858, 68863>>
    [] name = <<79, 108, 100, 95, 73, 116, 97, 108, 105, 99>> ->      \* Old_Italic
         <<66304, 66339, 66349, 66351>>
    [] name = <<79, 108, 100, 95, 78, 111, 114, 116, 104, 95, 65, 114, 97, 98, 105, 97, 110>> ->      \* Old_North_Arabian
         <<68224, 68255>>
    [] name = <<79, 108, 100, 95, 80, 101, 114, 109, 105, 99>> ->      \* Old_Permic
         <<66384, 66426>>
    [] name = <<79, 108, 100, 95, 80, 101, 114, 115, 105, 97, 110>> ->      \* Old_Persian
         <<66464, 66499, 66504, 66517>>
    [] name = <<79, 108, 100, 95, 83, 111, 103, 100, 105, 97, 110>> ->      \* Old_Sogdian
         <<69376, 69415>>
    [] name = <<79, 108, 100, 95, 83, 111, 117, 116, 104, 95, 65, 114, 97, 98, 105, 97, 110>> ->      \* Old_South_Arabian
         <<68192, 68223>>
    [] name = <<79, 108, 100, 95, 84, 117, 114, 107, 105, 99>> ->      \* Old_Turkic
         <<68608, 68680>>
    [] name = <<79, 108, 100, 95, 85, 121, 103, 104, 117, 114>> ->      \* Old_Uyghur
         <<69488, 69513>>
    [] name = <<79, 114, 105, 121, 97>> ->      \* Oriya
         <<2817, 2819, 2821, 2828, 2831, 2832, 2835, 2856, 2858, 2864, 2866,
           2867, 2869, 2873, 2876, 2884, 2887, 2888, 2891, 2893, 2901, 2903,
           2908, 2909, 2911, 2915, 2918, 2935>>
    [] name = <<79, 115, 97, 103, 101>> ->      \* Osage
         <<66736, 66771, 66776, 66811>>
    [] name = <<79, 115, 109, 97, 110, 121, 97>> ->      \* Osmanya
         <<66688, 66717, 66720, 66729>>
    [] name = <<80, 97, 104, 97, 119, 104, 95, 72, 109, 111, 110, 103>> ->      \* Pahawh_Hmong
         <<92928, 92997, 93008, 93017, 93019, 93025, 93027, 93047, 93053,
           93071>>
    [] name = <<80, 97, 108, 109, 121, 114, 101, 110, 101>> ->      \* Palmyrene
         <<67680, 67711>>
    [] name = <<80, 97, 117, 95, 67, 105, 110, 95, 72, 97, 117>> ->      \* Pau_Cin_Hau
         <<72384, 72440>>
    [] name = <<80, 104, 97, 103, 115, 95, 80, 97>> ->      \* Phags_Pa
         <<43072, 43127>>
    [] name = <<80, 104, 111, 101, 110, 105, 99, 105, 97, 110>> ->      \* Phoenician
         <<67840, 67867, 67871, 67871>>
    [] name = <<80, 115, 97, 108, 116, 101, 114, 95, 80, 97, 104, 108, 97, 118, 105>> ->      \* Psalter_Pahlavi
         <<68480, 68497, 68505, 68508, 68521, 68527>>
    [] name = <<82, 101, 106, 97, 110, 103>> ->      \* Rejang
         <<43312, 43347, 43359, 43359>>
    [] name = <<82, 117, 110, 105, 99>> ->      \* Runic
         <<5792, 5866, 5870, 5880>>
    [] name = <<83, 97, 109, 97, 114, 105, 116, 97, 110>> ->      \* Samaritan
         <<2048, 2093, 2096, 2110>>
    [] name = <<83, 97, 117, 114, 97, 115, 104, 116, 114, 97>> ->      \* Saurashtra
         <<43136, 43205, 43214, 43225>>
    [] name = <<83, 104, 97, 114, 97, 100, 97>> ->      \* Sharada
         <<70016, 70111>>
    [] name = <<83, 104, 97, 118, 105, 97, 110>> ->      \* Shavian
         <<66640, 66687>>
    [] name = <<83, 105, 100, 100, 104, 97, 109>> ->      \* Siddham
         <<71040, 71093, 71096, 71133>>
    [] name = <<83, 105, 103, 110, 87, 114, 105, 116, 105, 110, 103>> ->      \* SignWriting
         <<120832, 121483, 121499, 121503, 121505, 121519>>
    [] name = <<83, 105, 110, 104, 97, 108, 97>> ->      \* Sinhala
         <<3457, 3459, 3461, 3478, 3482, 3505, 3507, 3515, 3517, 3517, 3520,
           3526, 3530, 3530, 3535, 3540, 3542, 3542, 3544, 3551, 3558, 3567,
           3570, 3572, 70113, 70132>>
    [] name = <<83, 111, 103, 100, 105, 97, 110>> ->      \* Sogdian
         <<69424, 69465>>
    [] name = <<83, 111, 114, 97, 95, 83, 111, 109, 112, 101, 110, 103>> ->      \* Sora_Sompeng
         <<69840, 69864, 69872, 69881>>
    [] name = <<83, 111, 121, 111, 109, 98, 111>> ->      \* Soyombo
         <<72272, 72354>>
    [] name = <<83, 117, 110, 100, 97, 110, 101, 115, 101>> ->      \* Sundanese
         <<7040, 7103, 7360, 7367>>
    [] name = <<83, 121, 108, 111, 116, 105, 95, 78, 97, 103, 114, 105>> ->      \* Syloti_Nagri
         <<43008, 43052>>
    [] name = <<83, 121, 114, 105, 97, 99>> ->      \* Syriac
         <<1792, 1805, 1807, 1866, 1869, 1871, 2144, 2154>>
    [] name = <<84, 97, 103, 97, 108, 111, 103>> ->      \* Tagalog
         <<5888, 5909, 5919, 5919>>
    [] name = <<84, 97, 103, 98, 97, 110, 119, 97>> ->      \* Tagbanwa
         <<5984, 5996, 5998, 6000, 6002, 6003>>
    [] name = <<84, 97, 105, 95, 76, 101>> ->      \* Tai_Le
         <<6480, 6509, 6512, 6516>>
    [] name = <<84, 97, 105, 95, 84, 104, 97, 109>> ->      \* Tai_Tham
         <<6688, 6750, 6752, 6780, 6783, 6793, 6800, 6809, 6816, 6829>>
    [] name = <<84, 97, 105, 95, 86, 105, 101, 116>> ->      \* Tai_Viet
         <<43648, 43714, 43739, 43743>>
    [] name = <<84, 97, 107, 114, 105>> ->      \* Takri
         <<71296, 71353, 71360, 71369>>
    [] name = <<84, 97, 109, 105, 108>> ->      \* Tamil
         <<2946, 2947, 2949, 2954, 2958, 2960, 2962, 2965, 2969, 2970, 2972,
           2972, 2974, 2975, 2979, 2980, 2984, 2986, 2990, 3001, 3006, 3010,
           3014, 3016, 3018, 3021, 3024, 3024, 3031, 3031, 3046, 3066, 73664,
           73713, 73727, 73727>>
    [] name = <<84, 97, 110, 103, 115, 97>> ->      \* Tangsa
         <<92784, 92862, 92864, 92873>>
    [] name = <<84, 97, 110, 103, 117, 116>> ->      \* Tangut
         <<94176, 94176, 94208, 100343, 100352, 101119, 101632, 101640>>
    [] name = <<84, 101, 108, 117, 103, 117>> ->      \* Telugu
         <<3072, 3084, 3086, 3088, 3090, 3112, 3114, 3129, 3132, 3140, 3142,
           3144, 3146, 3149, 3157, 3158, 3160, 3162, 3165, 3165, 3168, 3171,
           3174, 3183, 3191, 3199>>
    [] name = <<84, 104, 97, 97, 110, 97>> ->      \* Thaana
         <<1920, 1969>>
    [] name = <<84, 104, 97, 105>> ->      \* Thai
         <<3585, 3642, 3648, 3675>>
    [] name = <<84, 105, 98, 101, 116, 97, 110>> ->      \* Tibetan
         <<3840, 3911, 3913, 3948, 3953, 3991, 3993, 4028, 4030, 4044, 4046,
           4052, 4057, 4058>>
    [] name = <<84, 105, 102, 105, 110, 97, 103, 104>> ->      \* Tifinagh
         <<11568, 11623, 11631, 11632, 11647, 11647>>
    [] name = <<84, 105, 114, 104, 117, 116, 97>> ->      \* Tirhuta
         <<70784, 70855, 70864, 70873>>
    [] name = <<84, 111, 116, 111>> ->      \* Toto
         <<123536, 123566>>
    [] name = <<85, 103, 97, 114, 105, 116, 105, 99>> ->      \* Ugaritic
         <<66432, 66461, 66463, 66463>>
    [] name = <<86, 97, 105>> ->      \* Vai
         <<42240, 42539>>
    [] name = <<86, 105, 116, 104, 107, 117, 113, 105>> ->      \* Vithkuqi
         <<66928, 66938, 66940, 66954, 66956, 66962, 66964, 66965, 66967,
           66977, 66979, 66993, 66995, 67001, 67003, 67004>>
    [] name = <<87, 97, 110, 99, 104, 111>> ->      \* Wancho
         <<123584, 123641, 123647, 123647>>
    [] name = <<87, 97, 114, 97, 110, 103, 95, 67, 105, 116, 105>> ->      \* Warang_Citi
         <<71840, 71922, 71935, 71935>>
    [] name = <<89, 101, 122, 105, 100, 105>> ->      \* Yezidi
         <<69248, 69289, 69291, 69293, 69296, 69297>>
    [] name = <<89, 105>> ->      \* Yi
         <<40960, 42124, 42128, 42182>>
    [] name = <<90, 97, 110, 97, 98, 97, 122, 97, 114, 95, 83, 113, 117, 97, 114, 101>> ->      \* Zanabazar_Square
         <<72192, 72263>>
    [] OTHER -> <<>>

(* unicode.FoldCategory: the runes outside the category that simple case    *)
(* folding makes equal to a rune of it; no pairs where there are none.      *)
FoldCategory(name) ==
  CASE name = <<76>> ->      \* L
         <<837, 837>>
    [] name = <<76, 108>> ->      \* Ll
         <<65, 90, 192, 214, 216, 222, 256, 256, 258, 258, 260, 260, 262, 262,
           264, 264, 266, 266, 268, 268, 270, 270, 272, 272, 274, 274, 276,
           276, 278, 278, 280, 280, 282, 282, 284, 284, 286, 286, 288, 288,
           290, 290, 292, 292, 294, 294, 296, 296, 298, 298, 300, 300, 302,
           302, 306, 306, 308, 308, 310, 310, 313, 313, 315, 315, 317, 317,
           319, 319, 321, 321, 323, 323, 325, 325, 327, 327, 330, 330, 332,
           332, 334, 334, 336, 336, 338, 338, 340, 340, 342, 342, 344, 344,
           346, 346, 348, 348, 350, 350, 352, 352, 354, 354, 356, 356, 358,
           358, 360, 360, 362, 362, 364, 364, 366, 366, 368, 368, 370, 370,
           372, 372, 374, 374, 376, 377, 379, 379, 381, 381, 385, 386, 388,
           388, 390, 391, 393, 395, 398, 401, 403, 404, 406, 408, 412, 413,
           415, 416, 418, 418, 420, 420, 422, 423, 425, 425, 428, 428, 430,
           431, 433, 435, 437, 437, 439, 440, 444, 444, 452, 453, 455, 456,
           458, 459, 461, 461, 463, 463, 465, 465, 467, 467, 469, 469, 471,
           471, 473, 473, 475, 475, 478, 478, 480, 480, 482, 482, 484, 484,
           486, 486, 488, 488, 490, 490, 492, 492, 494, 494, 497, 498, 500,
           500, 502, 504, 506, 506, 508, 508, 510, 510, 512, 512, 514, 514,
           516, 516, 518, 518, 520, 520, 522, 522, 524, 524, 526, 526, 528,
           528, 530, 530, 532, 532, 534, 534, 536, 536, 538, 538, 540, 540,
           542, 542, 544, 544, 546, 546, 548, 548, 550, 550, 552, 552, 554,
           554, 556, 556, 558, 558, 560, 560, 562, 562, 570, 571, 573, 574,
           577, 577, 579, 582, 584, 584, 586, 586, 588, 588, 590, 590, 837,
           837, 880, 880, 882, 882, 886, 886, 895, 895, 902, 902, 904, 906,
           908, 908, 910, 911, 913, 929, 931, 939, 975, 975, 984, 984, 986,
           986, 988, 988, 990, 990, 992, 992, 994, 994, 996, 996, 998, 998,
           1000, 1000, 1002, 1002, 1004, 1004, 1006, 1006, 1012, 1012, 1015,
           1015, 1017, 1018, 1021, 1071, 1120, 1120, 1122, 1122, 1124, 1124,
           1126, 1126, 1128, 1128, 1130, 1130, 1132, 1132, 1134, 1134, 1136,
           1136, 1138, 1138, 1140, 1140, 1142, 1142, 1144, 1144, 1146, 1146,
           1148, 1148, 1150, 1150, 1152, 1152, 1162, 1162, 1164, 1164, 1166,
           1166, 1168, 1168, 1170, 1170, 1172, 1172, 1174, 1174, 1176, 1176,
           1178, 1178, 1180, 1180, 1182, 1182, 1184, 1184, 1186, 1186, 1188,
           1188, 1190, 1190, 1192, 1192, 1194, 1194, 1196, 1196, 1198, 1198,
           1200, 1200, 1202, 1202, 1204, 1204, 1206, 1206, 1208, 1208, 1210,
           1210, 1212, 1212, 1214, 1214, 1216, 1217, 1219, 1219, 1221, 1221,
           1223, 1223, 1225, 1225, 1227, 1227, 1229, 1229, 1232, 1232, 1234,
           1234, 1236, 1236, 1238, 1238, 1240, 1240, 1242, 1242, 1244, 1244,
           1246, 1246, 1248, 1248, 1250, 1250, 1252, 1252, 1254, 1254, 1256,
           1256, 1258, 1258, 1260, 1260, 1262, 1262, 1264, 1264, 1266, 1266,
           1268, 1268, 1270, 1270, 1272, 1272, 1274, 1274, 1276, 1276, 1278,
           1278, 1280, 1280, 1282, 1282, 1284, 1284, 1286, 1286, 1288, 1288,
           1290, 1290, 1292, 1292, 1294, 1294, 1296, 1296, 1298, 1298, 1300,
           1300, 1302, 1302, 1304, 1304, 1306, 1306, 1308, 1308, 1310, 1310,
           1312, 1312, 1314, 1314, 1316, 1316, 1318, 1318, 1320, 1320, 1322,
           1322, 1324, 1324, 1326, 1326, 1329, 1366, 4256, 4293, 4295, 4295,
           4301, 4301, 5024, 5109, 7312, 7354, 7357, 7359, 7680, 7680, 7682,
           7682, 7684, 7684, 7686, 7686, 7688, 7688, 7690, 7690, 7692, 7692,
           7694, 7694, 7696, 7696, 7698, 7698, 7700, 7700, 7702, 7702, 7704,
           7704, 7706, 7706, 7708, 7708, 7710, 7710, 7712, 7712, 7714, 7714,
           7716, 7716, 7718, 7718, 7720, 7720, 7722, 7722, 7724, 7724, 7726,
           7726, 7728, 7728, 7730, 7730, 7732, 7732, 7734, 7734, 7736, 7736,
           7738, 7738, 7740, 7740, 7742, 7742, 7744, 7744, 7746, 7746, 7748,
           7748, 7750, 7750, 7752, 7752, 7754, 7754, 7756, 7756, 7758, 7758,
           7760, 7760, 7762, 7762, 7764, 7764, 7766, 7766, 7768, 7768, 7770,
           7770, 7772, 7772, 7774, 7774, 7776, 7776, 7778, 7778, 7780, 7780,
           7782, 7782, 7784, 7784, 7786, 7786, 7788, 7788, 7790, 7790, 7792,
           7792, 7794, 7794, 7796, 7796, 7798, 7798, 7800, 7800, 7802, 7802,
           7804, 7804, 7806, 7806, 7808, 7808, 7810, 7810, 7812, 7812, 7814,
           7814, 7816, 7816, 7818, 7818, 7820, 7820, 7822, 7822, 7824, 7824,
           7826, 7826, 7828, 7828, 7838, 7838, 7840, 7840, 7842, 7842, 7844,
           7844, 7846, 7846, 7848, 7848, 7850, 7850, 7852, 7852, 7854, 7854,
           7856, 7856, 7858, 7858, 7860, 7860, 7862, 7862, 7864, 7864, 7866,
           7866, 7868, 7868, 7870, 7870, 7872, 7872, 7874, 7874, 7876, 7876,
           7878, 7878, 7880, 7880, 7882, 7882, 7884, 7884, 7886, 7886, 7888,
           7888, 7890, 7890, 7892, 7892, 7894, 7894, 7896, 7896, 7898, 7898,
           7900, 7900, 7902, 7902, 7904, 7904, 7906, 7906, 7908, 7908, 7910,
           7910, 7912, 7912, 7914, 7914, 7916, 7916, 7918, 7918, 7920, 7920,
           7922, 7922, 7924, 7924, 7926, 7926, 7928, 7928, 7930, 7930, 7932,
           7932, 7934, 7934, 7944, 7951, 7960, 7965, 7976, 7983, 7992, 7999,
           8008, 8013, 8025, 8025, 8027, 8027, 8029, 8029, 8031, 8031, 8040,
           8047, 8072, 8079, 8088, 8095, 8104, 8111, 8120, 8124, 8136, 8140,
           8152, 8155, 8168, 8172, 8184, 8188, 8486, 8486, 8490, 8491, 8498,
           8498, 8579, 8579, 11264, 11311, 11360, 11360, 11362, 11364, 11367,
           11367, 11369, 11369, 11371, 11371, 11373, 11376, 11378, 11378,
           11381, 11381, 11390, 11392, 11394, 11394, 11396, 11396, 11398,
           11398, 11400, 11400, 11402, 11402, 11404, 11404, 11406, 11406,
           11408, 11408, 11410, 11410, 11412, 11412, 11414, 11414, 11416,
           11416, 11418, 11418, 11420, 11420, 11422, 11422, 11424, 11424,
           11426, 11426, 11428, 11428, 11430, 11430, 11432, 11432, 11434,
           11434, 11436, 11436, 11438, 11438, 11440, 11440, 11442, 11442,
           11444, 11444, 11446, 11446, 11448, 11448, 11450, 11450, 11452,
           11452, 11454, 11454, 11456, 11456, 11458, 11458, 11460, 11460,
           11462, 11462, 11464, 11464, 11466, 11466, 11468, 11468, 11470,
           11470, 11472, 11472, 11474, 11474, 11476, 11476, 11478, 11478,
           11480, 11480, 11482, 11482, 11484, 11484, 11486, 11486, 11488,
           11488, 11490, 11490, 11499, 11499, 11501, 11501, 11506, 11506,
           42560, 42560, 42562, 42562, 42564, 42564, 42566, 42566, 42568,
           42568, 42570, 42570, 42572, 42572, 42574, 42574, 42576, 42576,
           42578, 42578, 42580, 42580, 42582, 42582, 42584, 42584, 42586,
           42586, 42588, 42588, 42590, 42590, 42592, 42592, 42594, 42594,
           42596, 42596, 42598, 42598, 42600, 42600, 42602, 42602, 42604,
           42604, 42624, 42624, 42626, 42626, 42628, 42628, 42630, 42630,
           42632, 42632, 42634, 42634, 42636, 42636, 42638, 42638, 42640,
           42640, 42642, 42642, 42644, 42644, 42646, 42646, 42648, 42648,
           42650, 42650, 42786, 42786, 42788, 42788, 42790, 42790, 42792,
           42792, 42794, 42794, 42796, 42796, 42798, 42798, 42802, 42802,
           42804, 42804, 42806, 42806, 42808, 42808, 42810, 42810, 42812,
           42812, 42814, 42814, 42816, 42816, 42818, 42818, 42820, 42820,
           42822, 42822, 42824, 42824, 42826, 42826, 42828, 42828, 42830,
           42830, 42832, 42832, 42834, 42834, 42836, 42836, 42838, 42838,
           42840, 42840, 42842, 42842, 42844, 42844, 42846, 42846, 42848,
           42848, 42850, 42850, 42852, 42852, 42854, 42854, 42856, 42856,
           42858, 42858, 42860, 42860, 42862, 42862, 42873, 42873, 42875,
           42875, 42877, 42878, 42880, 42880, 42882, 42882, 42884, 42884,
           42886, 42886, 42891, 42891, 42893, 42893, 42896, 42896, 42898,
           42898, 42902, 42902, 42904, 42904, 42906, 42906, 42908, 42908,
           42910, 42910, 42912, 42912, 42914, 42914, 42916, 42916, 42918,
           42918, 42920, 42920, 42922, 42926, 42928, 42932, 42934, 42934,
           42936, 42936, 42938, 42938, 42940, 42940, 42942, 42942, 42944,
           42944, 42946, 42946, 42948, 42951, 42953, 42953, 42960, 42960,
           42966, 42966, 42968, 42968, 42997, 42997, 65313, 65338, 66560,
           66599, 66736, 66771, 66928, 66938, 66940, 66954, 66956, 66962,
           66964, 66965, 68736, 68786, 71840, 71871, 93760, 93791, 125184,
           125217>>
    [] name = <<76, 116>> ->      \* Lt
         <<452, 452, 454, 455, 457, 458, 460, 460, 497, 497, 499, 499, 8064,
           8071, 8080, 8087, 8096, 8103, 8115, 8115, 8131, 8131, 8179, 8179>>
    [] name = <<76, 117>> ->      \* Lu
         <<97, 122, 181, 181, 223, 246, 248, 255, 257, 257, 259, 259, 261,
           261, 263, 263, 265, 265, 267, 267, 269, 269, 271, 271, 273, 273,
           275, 275, 277, 277, 279, 279, 281, 281, 283, 283, 285, 285, 287,
           287, 289, 289, 291, 291, 293, 293, 295, 295, 297, 297, 299, 299,
           301, 301, 303, 303, 307, 307, 309, 309, 311, 311, 314, 314, 316,
           316, 318, 318, 320, 320, 322, 322, 324, 324, 326, 326, 328, 328,
           331, 331, 333, 333, 335, 335, 337, 337, 339, 339, 341, 341, 343,
           343, 345, 345, 347, 347, 349, 349, 351, 351, 353, 353, 355, 355,
           357, 357, 359, 359, 361, 361, 363, 363, 365, 365, 367, 367, 369,
           369, 371, 371, 373, 373, 375, 375, 378, 378, 380, 380, 382, 384,
           387, 387, 389, 389, 392, 392, 396, 396, 402, 402, 405, 405, 409,
           410, 414, 414, 417, 417, 419, 419, 421, 421, 424, 424, 429, 429,
           432, 432, 436, 436, 438, 438, 441, 441, 445, 445, 447, 447, 453,
           454, 456, 457, 459, 460, 462, 462, 464, 464, 466, 466, 468, 468,
           470, 470, 472, 472, 474, 474, 476, 477, 479, 479, 481, 481, 483,
           483, 485, 485, 487, 487, 489, 489, 491, 491, 493, 493, 495, 495,
           498, 499, 501, 501, 505, 505, 507, 507, 509, 509, 511, 511, 513,
           513, 515, 515, 517, 517, 519, 519, 521, 521, 523, 523, 525, 525,
           527, 527, 529, 529, 531, 531, 533, 533, 535, 535, 537, 537, 539,
           539, 541, 541, 543, 543, 547, 547, 549, 549, 551, 551, 553, 553,
           555, 555, 557, 557, 559, 559, 561, 561, 563, 563, 572, 572, 575,
           576, 578, 578, 583, 583, 585, 585, 587, 587, 589, 589, 591, 596,
           598, 599, 601, 601, 603, 604, 608, 609, 611, 611, 613, 614, 616,
           620, 623, 623, 625, 626, 629, 629, 637, 637, 640, 640, 642, 643,
           647, 652, 658, 658, 669, 670, 837, 837, 881, 881, 883, 883, 887,
           887, 891, 893, 940, 943, 945, 974, 976, 977, 981, 983, 985, 985,
           987, 987, 989, 989, 991, 991, 993, 993, 995, 995, 997, 997, 999,
           999, 1001, 1001, 1003, 1003, 1005, 1005, 1007, 1011, 1013, 1013,
           1016, 1016, 1019, 1019, 1072, 1119, 1121, 1121, 1123, 1123, 1125,
           1125, 1127, 1127, 1129, 1129, 1131, 1131, 1133, 1133, 1135, 1135,
           1137, 1137, 1139, 1139, 1141, 1141, 1143, 1143, 1145, 1145, 1147,
           1147, 1149, 1149, 1151, 1151, 1153, 1153, 1163, 1163, 1165, 1165,
           1167, 1167, 1169, 1169, 1171, 1171, 1173, 1173, 1175, 1175, 1177,
           1177, 1179, 1179, 1181, 1181, 1183, 1183, 1185, 1185, 1187, 1187,
           1189, 1189, 1191, 1191, 1193, 1193, 1195, 1195, 1197, 1197, 1199,
           1199, 1201, 1201, 1203, 1203, 1205, 1205, 1207, 1207, 1209, 1209,
           1211, 1211, 1213, 1213, 1215, 1215, 1218, 1218, 1220, 1220, 1222,
           1222, 1224, 1224, 1226, 1226, 1228, 1228, 1230, 1231, 1233, 1233,
           1235, 1235, 1237, 1237, 1239, 1239, 1241, 1241, 1243, 1243, 1245,
           1245, 1247, 1247, 1249, 1249, 1251, 1251, 1253, 1253, 1255, 1255,
           1257, 1257, 1259, 1259, 1261, 1261, 1263, 1263, 1265, 1265, 1267,
           1267, 1269, 1269, 1271, 1271, 1273, 1273, 1275, 1275, 1277, 1277,
           1279, 1279, 1281, 1281, 1283, 1283, 1285, 1285, 1287, 1287, 1289,
           1289, 1291, 1291, 1293, 1293, 1295, 1295, 1297, 1297, 1299, 1299,
           1301, 1301, 1303, 1303, 1305, 1305, 1307, 1307, 1309, 1309, 1311,
           1311, 1313, 1313, 1315, 1315, 1317, 1317, 1319, 1319, 1321, 1321,
           1323, 1323, 1325, 1325, 1327, 1327, 1377, 1414, 4304, 4346, 4349,
           4351, 5112, 5117, 7296, 7304, 7545, 7545, 7549, 7549, 7566, 7566,
           7681, 7681, 7683, 7683, 7685, 7685, 7687, 7687, 7689, 7689, 7691,
           7691, 7693, 7693, 7695, 7695, 7697, 7697, 7699, 7699, 7701, 7701,
           7703, 7703, 7705, 7705, 7707, 7707, 7709, 7709, 7711, 7711, 7713,
           7713, 7715, 7715, 7717, 7717, 7719, 7719, 7721, 7721, 7723, 7723,
           7725, 7725, 7727, 7727, 7729, 7729, 7731, 7731, 7733, 7733, 7735,
           7735, 7737, 7737, 7739, 7739, 7741, 7741, 7743, 7743, 7745, 7745,
           7747, 7747, 7749, 7749, 7751, 7751, 7753, 7753, 7755, 7755, 7757,
           7757, 7759, 7759, 7761, 7761, 7763, 7763, 7765, 7765, 7767, 7767,
           7769, 7769, 7771, 7771, 7773, 7773, 7775, 7775, 7777, 7777, 7779,
           7779, 7781, 7781, 7783, 7783, 7785, 7785, 7787, 7787, 7789, 7789,
           7791, 7791, 7793, 7793, 7795, 7795, 7797, 7797, 7799, 7799, 7801,
           7801, 7803, 7803, 7805, 7805, 7807, 7807, 7809, 7809, 7811, 7811,
           7813, 7813, 7815, 7815, 7817, 7817, 7819, 7819, 7821, 7821, 7823,
           7823, 7825, 7825, 7827, 7827, 7829, 7829, 7835, 7835, 7841, 7841,
           7843, 7843, 7845, 7845, 7847, 7847, 7849, 7849, 7851, 7851, 7853,
           7853, 7855, 7855, 7857, 7857, 7859, 7859, 7861, 7861, 7863, 7863,
           7865, 7865, 7867, 7867, 7869, 7869, 7871, 7871, 7873, 7873, 7875,
           7875, 7877, 7877, 7879, 7879, 7881, 7881, 7883, 7883, 7885, 7885,
           7887, 7887, 7889, 7889, 7891, 7891, 7893, 7893, 7895, 7895, 7897,
           7897, 7899, 7899, 7901, 7901, 7903, 7903, 7905, 7905, 7907, 7907,
           7909, 7909, 7911, 7911, 7913, 7913, 7915, 7915, 7917, 7917, 7919,
           7919, 7921, 7921, 7923, 7923, 7925, 7925, 7927, 7927, 7929, 7929,
           7931, 7931, 7933, 7933, 7935, 7943, 7952, 7957, 7968, 7975, 7984,
           7991, 8000, 8005, 8017, 8017, 8019, 8019, 8021, 8021, 8023, 8023,
           8032, 8039, 8048, 8061, 8112, 8113, 8126, 8126, 8144, 8145, 8160,
           8161, 8165, 8165, 8526, 8526, 8580, 8580, 11312, 11359, 11361,
           11361, 11365, 11366, 11368, 11368, 11370, 11370, 11372, 11372,
           11379, 11379, 11382, 11382, 11393, 11393, 11395, 11395, 11397,
           11397, 11399, 11399, 11401, 11401, 11403, 11403, 11405, 11405,
           11407, 11407, 11409, 11409, 11411, 11411, 11413, 11413, 11415,
           11415, 11417, 11417, 11419, 11419, 11421, 11421, 11423, 11423,
           11425, 11425, 11427, 11427, 11429, 11429, 11431, 11431, 11433,
           11433, 11435, 11435, 11437, 11437, 11439, 11439, 11441, 11441,
           11443, 11443, 11445, 11445, 11447, 11447, 11449, 11449, 11451,
           11451, 11453, 11453, 11455, 11455, 11457, 11457, 11459, 11459,
           11461, 11461, 11463, 11463, 11465, 11465, 11467, 11467, 11469,
           11469, 11471, 11471, 11473, 11473, 11475, 11475, 11477, 11477,
           11479, 11479, 11481, 11481, 11483, 11483, 11485, 11485, 11487,
           11487, 11489, 11489, 11491, 11491, 11500, 11500, 11502, 11502,
           11507, 11507, 11520, 11557, 11559, 11559, 11565, 11565, 42561,
           42561, 42563, 42563, 42565, 42565, 42567, 42567, 42569, 42569,
           42571, 42571, 42573, 42573, 42575, 42575, 42577, 42577, 42579,
           42579, 42581, 42581, 42583, 42583, 42585, 42585, 42587, 42587,
           42589, 42589, 42591, 42591, 42593, 42593, 42595, 42595, 42597,
           42597, 42599, 42599, 42601, 42601, 42603, 42603, 42605, 42605,
           42625, 42625, 42627, 42627, 42629, 42629, 42631, 42631, 42633,
           42633, 42635, 42635, 42637, 42637, 42639, 42639, 42641, 42641,
           42643, 42643, 42645, 42645, 42647, 42647, 42649, 42649, 42651,
           42651, 42787, 42787, 42789, 42789, 42791, 42791, 42793, 42793,
           42795, 42795, 42797, 42797, 42799, 42799, 42803, 42803, 42805,
           42805, 42807, 42807, 42809, 42809, 42811, 42811, 42813, 42813,
           42815, 42815, 42817, 42817, 42819, 42819, 42821, 42821, 42823,
           42823, 42825, 42825, 42827, 42827, 42829, 42829, 42831, 42831,
           42833, 42833, 42835, 42835, 42837, 42837, 42839, 42839, 42841,
           42841, 42843, 42843, 42845, 42845, 42847, 42847, 42849, 42849,
           42851, 42851, 42853, 42853, 42855, 42855, 42857, 42857, 42859,
           42859, 42861, 42861, 42863, 42863, 42874, 42874, 42876, 42876,
           42879, 42879, 42881, 42881, 42883, 42883, 42885, 42885, 42887,
           42887, 42892, 42892, 42897, 42897, 42899, 42900, 42903, 42903,
           42905, 42905, 42907, 42907, 42909, 42909, 42911, 42911, 42913,
           42913, 42915, 42915, 42917, 42917, 42919, 42919, 42921, 42921,
           42933, 42933, 42935, 42935, 42937, 42937, 42939, 42939, 42941,
           42941, 42943, 42943, 42945, 42945, 42947, 42947, 42952, 42952,
           42954, 42954, 42961, 42961, 42967, 42967, 42969, 42969, 42998,
           42998, 43859, 43859, 43888, 43967, 65345, 65370, 66600, 66639,
           66776, 66811, 66967, 66977, 66979, 66993, 66995, 67001, 67003,
           67004, 68800, 68850, 71872, 71903, 93792, 93823, 125218, 125251>>
    [] name = <<77>> ->      \* M
         <<921, 921, 953, 953, 8126, 8126>>
    [] name = <<77, 110>> ->      \* Mn
         <<921, 921, 953, 953, 8126, 8126>>
    [] OTHER -> <<>>

(* unicode.FoldScript: the same for the script of the name.                 *)
FoldScript(name) ==
  CASE name = <<67, 111, 109, 109, 111, 110>> ->      \* Common
         <<924, 924, 956, 956>>
    [] name = <<71, 114, 101, 101, 107>> ->      \* Greek
         <<181, 181, 837, 837>>
    [] name = <<73, 110, 104, 101, 114, 105, 116, 101, 100>> ->      \* Inherited
         <<921, 921, 953, 953, 8126, 8126>>
    [] OTHER -> <<>>

(* The orbits of unicode.SimpleFold that hold a rune above ASCII: the sets  *)
(* of the runes that simple case folding makes equal.                       *)
caseOrbits ==
  {{75, 107, 8490}, {83, 115, 383}, {181, 924, 956}, {192, 224}, {193, 225},
   {194, 226}, {195, 227}, {196, 228}, {197, 229, 8491}, {198, 230},
   {199, 231}, {200, 232}, {201, 233}, {202, 234}, {203, 235}, {204, 236},
   {205, 237}, {206, 238}, {207, 239}, {208, 240}, {209, 241}, {210, 242},
   {211, 243}, {212, 244}, {213, 245}, {214, 246}, {216, 248}, {217, 249},
   {218, 250}, {219, 251}, {220, 252}, {221, 253}, {222, 254}, {223, 7838},
   {255, 376}, {256, 257}, {258, 259}, {260, 261}, {262, 263}, {264, 265},
   {266, 267}, {268, 269}, {270, 271}, {272, 273}, {274, 275}, {276, 277},
   {278, 279}, {280, 281}, {282, 283}, {284, 285}, {286, 287}, {288, 289},
   {290, 291}, {292, 293}, {294, 295}, {296, 297}, {298, 299}, {300, 301},
   {302, 303}, {306, 307}, {308, 309}, {310, 311}, {313, 314}, {315, 316},
   {317, 318}, {319, 320}, {321, 322}, {323, 324}, {325, 326}, {327, 328},
   {330, 331}, {332, 333}, {334, 335}, {336, 337}, {338, 339}, {340, 341},
   {342, 343}, {344, 345}, {346, 347}, {348, 349}, {350, 351}, {352, 353},
   {354, 355}, {356, 357}, {358, 359}, {360, 361}, {362, 363}, {364, 365},
   {366, 367}, {368, 369}, {370, 371}, {372, 373}, {374, 375}, {377, 378},
   {379, 380}, {381, 382}, {384, 579}, {385, 595}, {386, 387}, {388, 389},
   {390, 596}, {391, 392}, {393, 598}, {394, 599}, {395, 396}, {398, 477},
   {399, 601}, {400, 603}, {401, 402}, {403, 608}, {404, 611}, {405, 502},
   {406, 617}, {407, 616}, {408, 409}, {410, 573}, {412, 623}, {413, 626},
   {414, 544}, {415, 629}, {416, 417}, {418, 419}, {420, 421}, {422, 640},
   {423, 424}, {425, 643}, {428, 429}, {430, 648}, {431, 432}, {433, 650},
   {434, 651}, {435, 436}, {437, 438}, {439, 658}, {440, 441}, {444, 445},
   {447, 503}, {452, 453, 454}, {455, 456, 457}, {458, 459, 460}, {461, 462},
   {463, 464}, {465, 466}, {467, 468}, {469, 470}, {471, 472}, {473, 474},
   {475, 476}, {478, 479}, {480, 481}, {482, 483}, {484, 485}, {486, 487},
   {488, 489}, {490, 491}, {492, 493}, {494, 495}, {497, 498, 499},
   {500, 501}, {504, 505}, {506, 507}, {508, 509}, {510, 511}, {512, 513},
   {514, 515}, {516, 517}, {518, 519}, {520, 521}, {522, 523}, {524, 525},
   {526, 527}, {528, 529}, {530, 531}, {532, 533}, {534, 535}, {536, 537},
   {538, 539}, {540, 541}, {542, 543}, {546, 547}, {548, 549}, {550, 551},
   {552, 553}, {554, 555}, {556, 557}, {558, 559}, {560, 561}, {562, 563},
   {570, 11365}, {571, 572}, {574, 11366}, {575, 11390}, {576, 11391},
   {577, 578}, {580, 649}, {581, 652}, {582, 583}, {584, 585}, {586, 587},
   {588, 589}, {590, 591}, {592, 11375}, {593, 11373}, {594, 11376},
   {604, 42923}, {609, 42924}, {613, 42893}, {614, 42922}, {618, 42926},
   {619, 11362}, {620, 42925}, {625, 11374}, {637, 11364}, {642, 42949},
   {647, 42929}, {669, 42930}, {670, 42928}, {837, 921, 953, 8126},
   {880, 881}, {882, 883}, {886, 887}, {891, 1021}, {892, 1022}, {893, 1023},
   {895, 1011}, {902, 940}, {904, 941}, {905, 942}, {906, 943}, {908, 972},
   {910, 973}, {911, 974}, {913, 945}, {914, 946, 976}, {915, 947},
   {916, 948}, {917, 949, 1013}, {918, 950}, {919, 951},
   {920, 952, 977, 1012}, {922, 954, 1008}, {923, 955}, {925, 957},
   {926, 958}, {927, 959}, {928, 960, 982}, {929, 961, 1009}, {931, 962, 963},
   {932, 964}, {933, 965}, {934, 966, 981}, {935, 967}, {936, 968},
   {937, 969, 8486}, {938, 970}, {939, 971}, {975, 983}, {984, 985},
   {986, 987}, {988, 989}, {990, 991}, {992, 993}, {994, 995}, {996, 997},
   {998, 999}, {1000, 1001}, {1002, 1003}, {1004, 1005}, {1006, 1007},
   {1010, 1017}, {1015, 1016}, {1018, 1019}, {1024, 1104}, {1025, 1105},
   {1026, 1106}, {1027, 1107}, {1028, 1108}, {1029, 1109}, {1030, 1110},
   {1031, 1111}, {1032, 1112}, {1033, 1113}, {1034, 1114}, {1035, 1115},
   {1036, 1116}, {1037, 1117}, {1038, 1118}, {1039, 1119}, {1040, 1072},
   {1041, 1073}, {1042, 1074, 7296}, {1043, 1075}, {1044, 1076, 7297},
   {1045, 1077}, {1046, 1078}, {1047, 1079}, {1048, 1080}, {1049, 1081},
   {1050, 1082}, {1051, 1083}, {1052, 1084}, {1053, 1085}, {1054, 1086, 7298},
   {1055, 1087}, {1056, 1088}, {1057, 1089, 7299}, {1058, 1090, 7300, 7301},
   {1059, 1091}, {1060, 1092}, {1061, 1093}, {1062, 1094}, {1063, 1095},
   {1064, 1096}, {1065, 1097}, {1066, 1098, 7302}, {1067, 1099}, {1068, 1100},
   {1069, 1101}, {1070, 1102}, {1071, 1103}, {1120, 1121}, {1122, 1123, 7303},
   {1124, 1125}, {1126, 1127}, {1128, 1129}, {1130, 1131}, {1132, 1133},
   {1134, 1135}, {1136, 1137}, {1138, 1139}, {1140, 1141}, {1142, 1143},
   {1144, 1145}, {1146, 1147}, {1148, 1149}, {1150, 1151}, {1152, 1153},
   {1162, 1163}, {1164, 1165}, {1166, 1167}, {1168, 1169}, {1170, 1171},
   {1172, 1173}, {1174, 1175}, {1176, 1177}, {1178, 1179}, {1180, 1181},
   {1182, 1183}, {1184, 1185}, {1186, 1187}, {1188, 1189}, {1190, 1191},
   {1192, 1193}, {1194, 1195}, {1196, 1197}, {1198, 1199}, {1200, 1201},
   {1202, 1203}, {1204, 1205}, {1206, 1207}, {1208, 1209}, {1210, 1211},
   {1212, 1213}, {1214, 1215}, {1216, 1231}, {1217, 1218}, {1219, 1220},
   {1221, 1222}, {1223, 1224}, {1225, 1226}, {1227, 1228}, {1229, 1230},
   {1232, 1233}, {1234, 1235}, {1236, 1237}, {1238, 1239}, {1240, 1241},
   {1242, 1243}, {1244, 1245}, {1246, 1247}, {1248, 1249}, {1250, 1251},
   {1252, 1253}, {1254, 1255}, {1256, 1257}, {1258, 1259}, {1260, 1261},
   {1262, 1263}, {1264, 1265}, {1266, 1267}, {1268, 1269}, {1270, 1271},
   {1272, 1273}, {1274, 1275}, {1276, 1277}, {1278, 1279}, {1280, 1281},
   {1282, 1283}, {1284, 1285}, {1286, 1287}, {1288, 1289}, {1290, 1291},
   {1292, 1293}, {1294, 1295}, {1296, 1297}, {1298, 1299}, {1300, 1301},
   {1302, 1303}, {1304, 1305}, {1306, 1307}, {1308, 1309}, {1310, 1311},
   {1312, 1313}, {1314, 1315}, {1316, 1317}, {1318, 1319}, {1320, 1321},
   {1322, 1323}, {1324, 1325}, {1326, 1327}, {1329, 1377}, {1330, 1378},
   {1331, 1379}, {1332, 1380}, {1333, 1381}, {1334, 1382}, {1335, 1383},
   {1336, 1384}, {1337, 1385}, {1338, 1386}, {1339, 1387}, {1340, 1388},
   {1341, 1389}, {1342, 1390}, {1343, 1391}, {1344, 1392}, {1345, 1393},
   {1346, 1394}, {1347, 1395}, {1348, 1396}, {1349, 1397}, {1350, 1398},
   {1351, 1399}, {1352, 1400}, {1353, 1401}, {1354, 1402}, {1355, 1403},
   {1356, 1404}, {1357, 1405}, {1358, 1406}, {1359, 1407}, {1360, 1408},
   {1361, 1409}, {1362, 1410}, {1363, 1411}, {1364, 1412}, {1365, 1413},
   {1366, 1414}, {4256, 11520}, {4257, 11521}, {4258, 11522}, {4259, 11523},
   {4260, 11524}, {4261, 11525}, {4262, 11526}, {4263, 11527}, {4264, 11528},
   {4265, 11529}, {4266, 11530}, {4267, 11531}, {4268, 11532}, {4269, 11533},
   {4270, 11534}, {4271, 11535}, {4272, 11536}, {4273, 11537}, {4274, 11538},
   {4275, 11539}, {4276, 11540}, {4277, 11541}, {4278, 11542}, {4279, 11543},
   {4280, 11544}, {4281, 11545}, {4282, 11546}, {4283, 11547}, {4284, 11548},
   {4285, 11549}, {4286, 11550}, {4287, 11551}, {4288, 11552}, {4289, 11553},
   {4290, 11554}, {4291, 11555}, {4292, 11556}, {4293, 11557}, {4295, 11559},
   {4301, 11565}, {4304, 7312}, {4305, 7313}, {4306, 7314}, {4307, 7315},
   {4308, 7316}, {4309, 7317}, {4310, 7318}, {4311, 7319}, {4312, 7320},
   {4313, 7321}, {4314, 7322}, {4315, 7323}, {4316, 7324}, {4317, 7325},
   {4318, 7326}, {4319, 7327}, {4320, 7328}, {4321, 7329}, {4322, 7330},
   {4323, 7331}, {4324, 7332}, {4325, 7333}, {4326, 7334}, {4327, 7335},
   {4328, 7336}, {4329, 7337}, {4330, 7338}, {4331, 7339}, {4332, 7340},
   {4333, 7341}, {4334, 7342}, {4335, 7343}, {4336, 7344}, {4337, 7345},
   {4338, 7346}, {4339, 7347}, {4340, 7348}, {4341, 7349}, {4342, 7350},
   {4343, 7351}, {4344, 7352}, {4345, 7353}, {4346, 7354}, {4349, 7357},
   {4350, 7358}, {4351, 7359}, {5024, 43888}, {5025, 43889}, {5026, 43890},
   {5027, 43891}, {5028, 43892}, {5029, 43893}, {5030, 43894}, {5031, 43895},
   {5032, 43896}, {5033, 43897}, {5034, 43898}, {5035, 43899}, {5036, 43900},
   {5037, 43901}, {5038, 43902}, {5039, 43903}, {5040, 43904}, {5041, 43905},
   {5042, 43906}, {5043, 43907}, {5044, 43908}, {5045, 43909}, {5046, 43910},
   {5047, 43911}, {5048, 43912}, {5049, 43913}, {5050, 43914}, {5051, 43915},
   {5052, 43916}, {5053, 43917}, {5054, 43918}, {5055, 43919}, {5056, 43920},
   {5057, 43921}, {5058, 43922}, {5059, 43923}, {5060, 43924}, {5061, 43925},
   {5062, 43926}, {5063, 43927}, {5064, 43928}, {5065, 43929}, {5066, 43930},
   {5067, 43931}, {5068, 43932}, {5069, 43933}, {5070, 43934}, {5071, 43935},
   {5072, 43936}, {5073, 43937}, {5074, 43938}, {5075, 43939}, {5076, 43940},
   {5077, 43941}, {5078, 43942}, {5079, 43943}, {5080, 43944}, {5081, 43945},
   {5082, 43946}, {5083, 43947}, {5084, 43948}, {5085, 43949}, {5086, 43950},
   {5087, 43951}, {5088, 43952}, {5089, 43953}, {5090, 43954}, {5091, 43955},
   {5092, 43956}, {5093, 43957}, {5094, 43958}, {5095, 43959}, {5096, 43960},
   {5097, 43961}, {5098, 43962}, {5099, 43963}, {5100, 43964}, {5101, 43965},
   {5102, 43966}, {5103, 43967}, {5104, 5112}, {5105, 5113}, {5106, 5114},
   {5107, 5115}, {5108, 5116}, {5109, 5117}, {7304, 42570, 42571},
   {7545, 42877}, {7549, 11363}, {7566, 42950}, {7680, 7681}, {7682, 7683},
   {7684, 7685}, {7686, 7687}, {7688, 7689}, {7690, 7691}, {7692, 7693},
   {7694, 7695}, {7696, 7697}, {7698, 7699}, {7700, 7701}, {7702, 7703},
   {7704, 7705}, {7706, 7707}, {7708, 7709}, {7710, 7711}, {7712, 7713},
   {7714, 7715}, {7716, 7717}, {7718, 7719}, {7720, 7721}, {7722, 7723},
   {7724, 7725}, {7726, 7727}, {7728, 7729}, {7730, 7731}, {7732, 7733},
   {7734, 7735}, {7736, 7737}, {7738, 7739}, {7740, 7741}, {7742, 7743},
   {7744, 7745}, {7746, 7747}, {7748, 7749}, {7750, 7751}, {7752, 7753},
   {7754, 7755}, {7756, 7757}, {7758, 7759}, {7760, 7761}, {7762, 7763},
   {7764, 7765}, {7766, 7767}, {7768, 7769}, {7770, 7771}, {7772, 7773},
   {7774, 7775}, {7776, 7777, 7835}, {7778, 7779}, {7780, 7781}, {7782, 7783},
   {7784, 7785}, {7786, 7787}, {7788, 7789}, {7790, 7791}, {7792, 7793},
   {7794, 7795}, {7796, 7797}, {7798, 7799}, {7800, 7801}, {7802, 7803},
   {7804, 7805}, {7806, 7807}, {7808, 7809}, {7810, 7811}, {7812, 7813},
   {7814, 7815}, {7816, 7817}, {7818, 7819}, {7820, 7821}, {7822, 7823},
   {7824, 7825}, {7826, 7827}, {7828, 7829}, {7840, 7841}, {7842, 7843},
   {7844, 7845}, {7846, 7847}, {7848, 7849}, {7850, 7851}, {7852, 7853},
   {7854, 7855}, {7856, 7857}, {7858, 7859}, {7860, 7861}, {7862, 7863},
   {7864, 7865}, {7866, 7867}, {7868, 7869}, {7870, 7871}, {7872, 7873},
   {7874, 7875}, {7876, 7877}, {7878, 7879}, {7880, 7881}, {7882, 7883},
   {7884, 7885}, {7886, 7887}, {7888, 7889}, {7890, 7891}, {7892, 7893},
   {7894, 7895}, {7896, 7897}, {7898, 7899}, {7900, 7901}, {7902, 7903},
   {7904, 7905}, {7906, 7907}, {7908, 7909}, {7910, 7911}, {7912, 7913},
   {7914, 7915}, {7916, 7917}, {7918, 7919}, {7920, 7921}, {7922, 7923},
   {7924, 7925}, {7926, 7927}, {7928, 7929}, {7930, 7931}, {7932, 7933},
   {7934, 7935}, {7936, 7944}, {7937, 7945}, {7938, 7946}, {7939, 7947},
   {7940, 7948}, {7941, 7949}, {7942, 7950}, {7943, 7951}, {7952, 7960},
   {7953, 7961}, {7954, 7962}, {7955, 7963}, {7956, 7964}, {7957, 7965},
   {7968, 7976}, {7969, 7977}, {7970, 7978}, {7971, 7979}, {7972, 7980},
   {7973, 7981}, {7974, 7982}, {7975, 7983}, {7984, 7992}, {7985, 7993},
   {7986, 7994}, {7987, 7995}, {7988, 7996}, {7989, 7997}, {7990, 7998},
   {7991, 7999}, {8000, 8008}, {8001, 8009}, {8002, 8010}, {8003, 8011},
   {8004, 8012}, {8005, 8013}, {8017, 8025}, {8019, 8027}, {8021, 8029},
   {8023, 8031}, {8032, 8040}, {8033, 8041}, {8034, 8042}, {8035, 8043},
   {8036, 8044}, {8037, 8045}, {8038, 8046}, {8039, 8047}, {8048, 8122},
   {8049, 8123}, {8050, 8136}, {8051, 8137}, {8052, 8138}, {8053, 8139},
   {8054, 8154}, {8055, 8155}, {8056, 8184}, {8057, 8185}, {8058, 8170},
   {8059, 8171}, {8060, 8186}, {8061, 8187}, {8064, 8072}, {8065, 8073},
   {8066, 8074}, {8067, 8075}, {8068, 8076}, {8069, 8077}, {8070, 8078},
   {8071, 8079}, {8080, 8088}, {8081, 8089}, {8082, 8090}, {8083, 8091},
   {8084, 8092}, {8085, 8093}, {8086, 8094}, {8087, 8095}, {8096, 8104},
   {8097, 8105}, {8098, 8106}, {8099, 8107}, {8100, 8108}, {8101, 8109},
   {8102, 8110}, {8103, 8111}, {8112, 8120}, {8113, 8121}, {8115, 8124},
   {8131, 8140}, {8144, 8152}, {8145, 8153}, {8160, 8168}, {8161, 8169},
   {8165, 8172}, {8179, 8188}, {8498, 8526}, {8544, 8560}, {8545, 8561},
   {8546, 8562}, {8547, 8563}, {8548, 8564}, {8549, 8565}, {8550, 8566},
   {8551, 8567}, {8552, 8568}, {8553, 8569}, {8554, 8570}, {8555, 8571},
   {8556, 8572}, {8557, 8573}, {8558, 8574}, {8559, 8575}, {8579, 8580},
   {9398, 9424}, {9399, 9425}, {9400, 9426}, {9401, 9427}, {9402, 9428},
   {9403, 9429}, {9404, 9430}, {9405, 9431}, {9406, 9432}, {9407, 9433},
   {9408, 9434}, {9409, 9435}, {9410, 9436}, {9411, 9437}, {9412, 9438},
   {9413, 9439}, {9414, 9440}, {9415, 9441}, {9416, 9442}, {9417, 9443},
   {9418, 9444}, {9419, 9445}, {9420, 9446}, {9421, 9447}, {9422, 9448},
   {9423, 9449}, {11264, 11312}, {11265, 11313}, {11266, 11314},
   {11267, 11315}, {11268, 11316}, {11269, 11317}, {11270, 11318},
   {11271, 11319}, {11272, 11320}, {11273, 11321}, {11274, 11322},
   {11275, 11323}, {11276, 11324}, {11277, 11325}, {11278, 11326},
   {11279, 11327}, {11280, 11328}, {11281, 11329}, {11282, 11330},
   {11283, 11331}, {11284, 11332}, {11285, 11333}, {11286, 11334},
   {11287, 11335}, {11288, 11336}, {11289, 11337}, {11290, 11338},
   {11291, 11339}, {11292, 11340}, {11293, 11341}, {11294, 11342},
   {11295, 11343}, {11296, 11344}, {11297, 11345}, {11298, 11346},
   {11299, 11347}, {11300, 11348}, {11301, 11349}, {11302, 11350},
   {11303, 11351}, {11304, 11352}, {11305, 11353}, {11306, 11354},
   {11307, 11355}, {11308, 11356}, {11309, 11357}, {11310, 11358},
   {11311, 11359}, {11360, 11361}, {11367, 11368}, {11369, 11370},
   {11371, 11372}, {11378, 11379}, {11381, 11382}, {11392, 11393},
   {11394, 11395}, {11396, 11397}, {11398, 11399}, {11400, 11401},
   {11402, 11403}, {11404, 11405}, {11406, 11407}, {11408, 11409},
   {11410, 11411}, {11412, 11413}, {11414, 11415}, {11416, 11417},
   {11418, 11419}, {11420, 11421}, {11422, 11423}, {11424, 11425},
   {11426, 11427}, {11428, 11429}, {11430, 11431}, {11432, 11433},
   {11434, 11435}, {11436, 11437}, {11438, 11439}, {11440, 11441},
   {11442, 11443}, {11444, 11445}, {11446, 11447}, {11448, 11449},
   {11450, 11451}, {11452, 11453}, {11454, 11455}, {11456, 11457},
   {11458, 11459}, {11460, 11461}, {11462, 11463}, {11464, 11465},
   {11466, 11467}, {11468, 11469}, {11470, 11471}, {11472, 11473},
   {11474, 11475}, {11476, 11477}, {11478, 11479}, {11480, 11481},
   {11482, 11483}, {11484, 11485}, {11486, 11487}, {11488, 11489},
   {11490, 11491}, {11499, 11500}, {11501, 11502}, {11506, 11507},
   {42560, 42561}, {42562, 42563}, {42564, 42565}, {42566, 42567},
   {42568, 42569}, {42572, 42573}, {42574, 42575}, {42576, 42577},
   {42578, 42579}, {42580, 42581}, {42582, 42583}, {42584, 42585},
   {42586, 42587}, {42588, 42589}, {42590, 42591}, {42592, 42593},
   {42594, 42595}, {42596, 42597}, {42598, 42599}, {42600, 42601},
   {42602, 42603}, {42604, 42605}, {42624, 42625}, {42626, 42627},
   {42628, 42629}, {42630, 42631}, {42632, 42633}, {42634, 42635},
   {42636, 42637}, {42638, 42639}, {42640, 42641}, {42642, 42643},
   {42644, 42645}, {42646, 42647}, {42648, 42649}, {42650, 42651},
   {42786, 42787}, {42788, 42789}, {42790, 42791}, {42792, 42793},
   {42794, 42795}, {42796, 42797}, {42798, 42799}, {42802, 42803},
   {42804, 42805}, {42806, 42807}, {42808, 42809}, {42810, 42811},
   {42812, 42813}, {42814, 42815}, {42816, 42817}, {42818, 42819},
   {42820, 42821}, {42822, 42823}, {42824, 42825}, {42826, 42827},
   {42828, 42829}, {42830, 42831}, {42832, 42833}, {42834, 42835},
   {42836, 42837}, {42838, 42839}, {42840, 42841}, {42842, 42843},
   {42844, 42845}, {42846, 42847}, {42848, 42849}, {42850, 42851},
   {42852, 42853}, {42854, 42855}, {42856, 42857}, {42858, 42859},
   {42860, 42861}, {42862, 42863}, {42873, 42874}, {42875, 42876},
   {42878, 42879}, {42880, 42881}, {42882, 42883}, {42884, 42885},
   {42886, 42887}, {42891, 42892}, {42896, 42897}, {42898, 42899},
   {42900, 42948}, {42902, 42903}, {42904, 42905}, {42906, 42907},
   {42908, 42909}, {42910, 42911}, {42912, 42913}, {42914, 42915},
   {42916, 42917}, {42918, 42919}, {42920, 42921}, {42931, 43859},
   {42932, 42933}, {42934, 42935}, {42936, 42937}, {42938, 42939},
   {42940, 42941}, {42942, 42943}, {42944, 42945}, {42946, 42947},
   {42951, 42952}, {42953, 42954}, {42960, 42961}, {42966, 42967},
   {42968, 42969}, {42997, 42998}, {65313, 65345}, {65314, 65346},
   {65315, 65347}, {65316, 65348}, {65317, 65349}, {65318, 65350},
   {65319, 65351}, {65320, 65352}, {65321, 65353}, {65322, 65354},
   {65323, 65355}, {65324, 65356}, {65325, 65357}, {65326, 65358},
   {65327, 65359}, {65328, 65360}, {65329, 65361}, {65330, 65362},
   {65331, 65363}, {65332, 65364}, {65333, 65365}, {65334, 65366},
   {65335, 65367}, {65336, 65368}, {65337, 65369}, {65338, 65370},
   {66560, 66600}, {66561, 66601}, {66562, 66602}, {66563, 66603},
   {66564, 66604}, {66565, 66605}, {66566, 66606}, {66567, 66607},
   {66568, 66608}, {66569, 66609}, {66570, 66610}, {66571, 66611},
   {66572, 66612}, {66573, 66613}, {66574, 66614}, {66575, 66615},
   {66576, 66616}, {66577, 66617}, {66578, 66618}, {66579, 66619},
   {66580, 66620}, {66581, 66621}, {66582, 66622}, {66583, 66623},
   {66584, 66624}, {66585, 66625}, {66586, 66626}, {66587, 66627},
   {66588, 66628}, {66589, 66629}, {66590, 66630}, {66591, 66631},
   {66592, 66632}, {66593, 66633}, {66594, 66634}, {66595, 66635},
   {66596, 66636}, {66597, 66637}, {66598, 66638}, {66599, 66639},
   {66736, 66776}, {66737, 66777}, {66738, 66778}, {66739, 66779},
   {66740, 66780}, {66741, 66781}, {66742, 66782}, {66743, 66783},
   {66744, 66784}, {66745, 66785}, {66746, 66786}, {66747, 66787},
   {66748, 66788}, {66749, 66789}, {66750, 66790}, {66751, 66791},
   {66752, 66792}, {66753, 66793}, {66754, 66794}, {66755, 66795},
   {66756, 66796}, {66757, 66797}, {66758, 66798}, {66759, 66799},
   {66760, 66800}, {66761, 66801}, {66762, 66802}, {66763, 66803},
   {66764, 66804}, {66765, 66805}, {66766, 66806}, {66767, 66807},
   {66768, 66808}, {66769, 66809}, {66770, 66810}, {66771, 66811},
   {66928, 66967}, {66929, 66968}, {66930, 66969}, {66931, 66970},
   {66932, 66971}, {66933, 66972}, {66934, 66973}, {66935, 66974},
   {66936, 66975}, {66937, 66976}, {66938, 66977}, {66940, 66979},
   {66941, 66980}, {66942, 66981}, {66943, 66982}, {66944, 66983},
   {66945, 66984}, {66946, 66985}, {66947, 66986}, {66948, 66987},
   {66949, 66988}, {66950, 66989}, {66951, 66990}, {66952, 66991},
   {66953, 66992}, {66954, 66993}, {66956, 66995}, {66957, 66996},
   {66958, 66997}, {66959, 66998}, {66960, 66999}, {66961, 67000},
   {66962, 67001}, {66964, 67003}, {66965, 67004}, {68736, 68800},
   {68737, 68801}, {68738, 68802}, {68739, 68803}, {68740, 68804},
   {68741, 68805}, {68742, 68806}, {68743, 68807}, {68744, 68808},
   {68745, 68809}, {68746, 68810}, {68747, 68811}, {68748, 68812},
   {68749, 68813}, {68750, 68814}, {68751, 68815}, {68752, 68816},
   {68753, 68817}, {68754, 68818}, {68755, 68819}, {68756, 68820},
   {68757, 68821}, {68758, 68822}, {68759, 68823}, {68760, 68824},
   {68761, 68825}, {68762, 68826}, {68763, 68827}, {68764, 68828},
   {68765, 68829}, {68766, 68830}, {68767, 68831}, {68768, 68832},
   {68769, 68833}, {68770, 68834}, {68771, 68835}, {68772, 68836},
   {68773, 68837}, {68774, 68838}, {68775, 68839}, {68776, 68840},
   {68777, 68841}, {68778, 68842}, {68779, 68843}, {68780, 68844},
   {68781, 68845}, {68782, 68846}, {68783, 68847}, {68784, 68848},
   {68785, 68849}, {68786, 68850}, {71840, 71872}, {71841, 71873},
   {71842, 71874}, {71843, 71875}, {71844, 71876}, {71845, 71877},
   {71846, 71878}, {71847, 71879}, {71848, 71880}, {71849, 71881},
   {71850, 71882}, {71851, 71883}, {71852, 71884}, {71853, 71885},
   {71854, 71886}, {71855, 71887}, {71856, 71888}, {71857, 71889},
   {71858, 71890}, {71859, 71891}, {71860, 71892}, {71861, 71893},
   {71862, 71894}, {71863, 71895}, {71864, 71896}, {71865, 71897},
   {71866, 71898}, {71867, 71899}, {71868, 71900}, {71869, 71901},
   {71870, 71902}, {71871, 71903}, {93760, 93792}, {93761, 93793},
   {93762, 93794}, {93763, 93795}, {93764, 93796}, {93765, 93797},
   {93766, 93798}, {93767, 93799}, {93768, 93800}, {93769, 93801},
   {93770, 93802}, {93771, 93803}, {93772, 93804}, {93773, 93805},
   {93774, 93806}, {93775, 93807}, {93776, 93808}, {93777, 93809},
   {93778, 93810}, {93779, 93811}, {93780, 93812}, {93781, 93813},
   {93782, 93814}, {93783, 93815}, {93784, 93816}, {93785, 93817},
   {93786, 93818}, {93787, 93819}, {93788, 93820}, {93789, 93821},
   {93790, 93822}, {93791, 93823}, {125184, 125218}, {125185, 125219},
   {125186, 125220}, {125187, 125221}, {125188, 125222}, {125189, 125223},
   {125190, 125224}, {125191, 125225}, {125192, 125226}, {125193, 125227},
   {125194, 125228}, {125195, 125229}, {125196, 125230}, {125197, 125231},
   {125198, 125232}, {125199, 125233}, {125200, 125234}, {125201, 125235},
   {125202, 125236}, {125203, 125237}, {125204, 125238}, {125205, 125239},
   {125206, 125240}, {125207, 125241}, {125208, 125242}, {125209, 125243},
   {125210, 125244}, {125211, 125245}, {125212, 125246}, {125213, 125247},
   {125214, 125248}, {125215, 125249}, {125216, 125250}, {125217, 125251}}

(* The rune of the orbit o that follows r: the least one that is greater,  *)
(* and the least of all after the greatest.                                *)
orbitNext(o, r) ==
  IF \E x \in o : x > r THEN CHOOSE x \in o : x > r /\ \A y \in o : y > r => x <= y
  ELSE CHOOSE x \in o : \A y \in o : x <= y

(* unicode.SimpleFold: the next rune of the orbit of r; the ASCII runes    *)
(* first, as the code has a table of their own for them.                   *)
SimpleFold(r) ==
  IF r = ReRunes.K THEN ReRunes.k
  ELSE IF r = ReRunes.k THEN Unicode.kelvin
  ELSE IF r = ReRunes.S THEN ReRunes.s
  ELSE IF r = ReRunes.s THEN Unicode.longS
  ELSE IF r >= 65 /\ r <= 90 THEN r + 32
  ELSE IF r >= 97 /\ r <= 122 THEN r - 32
  ELSE IF r < Unicode.RuneSelf \/ r > Unicode.MaxRune THEN r
  ELSE With({o \in caseOrbits : r \in o}, LAMBDA os :
         IF os = {} THEN r ELSE orbitNext(CHOOSE o \in os : TRUE, r))

RECURSIVE minFoldLoop(_, _, _)
minFoldLoop(r, r0, m) ==
  IF r = r0 THEN m ELSE minFoldLoop(SimpleFold(r), r0, IF r < m THEN r ELSE m)

minFoldRune(r) ==
  IF r < Unicode.minFold \/ r > Unicode.maxFold THEN r
  ELSE minFoldLoop(SimpleFold(r), r, r)

(* Classes are flat lists of lo, hi pairs.  appendRange widens the last or *)
(* the last but one pair when the new one overlaps or abuts it.            *)
appendRange(r, lo, hi) ==
  LET n == Len(r)
      hit(i) == n >= i /\ lo <= r[n - i + 2] + 1 /\ r[n - i + 1] <= hi + 1
      upd(i) == [r EXCEPT ![n - i + 1] = IF lo < @ THEN lo ELSE @,
                          ![n - i + 2] = IF hi > @ THEN hi ELSE @]
  IN IF hit(2) THEN upd(2) ELSE IF hit(4) THEN upd(4) ELSE r \o <<lo, hi>>

RECURSIVE foldOrbit(_, _, _)
foldOrbit(r, c, f) ==
  IF f = c THEN r ELSE foldOrbit(appendRange(r, f, f), c, SimpleFold(f))

foldBrute(r, lo, hi) ==
  With(r, LAMBDA r0 :
    forLoop(LAMBDA a, c : foldOrbit(appendRange(a, c, c), c, SimpleFold(c)), r0, lo, hi))

appendFoldedRange(r, lo, hi) ==
  IF lo <= Unicode.minFold /\ hi >= Unicode.maxFold THEN appendRange(r, lo, hi)
  ELSE IF hi < Unicode.minFold \/ lo > Unicode.maxFold THEN appendRange(r, lo, hi)
  ELSE LET r1 == IF lo < Unicode.minFold THEN appendRange(r, lo, Unicode.minFold - 1) ELSE r
           lo1 == IF lo < Unicode.minFold THEN Unicode.minFold ELSE lo
           r2 == IF hi > Unicode.maxFold THEN appendRange(r1, Unicode.maxFold + 1, hi) ELSE r1
           hi1 == IF hi > Unicode.maxFold THEN Unicode.maxFold ELSE hi
       IN foldBrute(r2, lo1, hi1)

appendLiteral(r, x, flags) ==
  IF "FoldCase" \in flags THEN appendFoldedRange(r, x, x) ELSE appendRange(r, x, x)

(* The pairs of a class x are x[2k - 1], x[2k] for k from 1 to Pairs(x).   *)
Pairs(x) == Len(x) \div 2

appendClass(r, x) ==
  With(<<r, x>>, LAMBDA v :
    forLoop(LAMBDA a, k : appendRange(a, v[2][2 * k - 1], v[2][2 * k]), v[1], 1, Pairs(v[2])))

appendFoldedClass(r, x) ==
  With(<<r, x>>, LAMBDA v :
    forLoop(LAMBDA a, k : appendFoldedRange(a, v[2][2 * k - 1], v[2][2 * k]), v[1], 1,
            Pairs(v[2])))

(* The loop of appendNegatedClass: r so far and nextLo.                    *)
appendNegatedStep(st, lo, hi) ==
  [r |-> IF st.nextLo <= lo - 1 THEN appendRange(st.r, st.nextLo, lo - 1) ELSE st.r,
   nextLo |-> hi + 1]

appendNegatedClass(r, x) ==
  With(<<r, x>>, LAMBDA v :
    With(forLoop(LAMBDA st, k : appendNegatedStep(st, v[2][2 * k - 1], v[2][2 * k]),
                 [r |-> v[1], nextLo |-> 0], 1, Pairs(v[2])), LAMBDA st :
      IF st.nextLo <= Unicode.MaxRune THEN appendRange(st.r, st.nextLo, Unicode.MaxRune)
      ELSE st.r))

(* cleanClass: the pairs sorted by lo ascending and hi descending, then    *)
(* the overlapping and the abutting ones merged.  pairLess is the Less of  *)
(* the sort; insertPair puts a pair behind the pairs of a sorted class     *)
(* that it is not less than.                                               *)
pairLess(lo, hi, lo2, hi2) == lo < lo2 \/ (lo = lo2 /\ hi > hi2)

insertPair(sorted, lo, hi) ==
  IF sorted = <<>> \/ ~pairLess(lo, hi, sorted[Len(sorted) - 1], sorted[Len(sorted)])
  THEN sorted \o <<lo, hi>>
  ELSE With(Cardinality({k \in 1..Pairs(sorted) :
                           ~pairLess(lo, hi, sorted[2 * k - 1], sorted[2 * k])}), LAMBDA n :
         SubSeq(sorted, 1, 2 * n) \o <<lo, hi>> \o SubSeq(sorted, 2 * n + 1, Len(sorted)))

sortPairs(r) ==
  With(r, LAMBDA r0 :
    forLoop(LAMBDA sorted, k : insertPair(sorted, r0[2 * k - 1], r0[2 * k]), <<>>, 1,
            Pairs(r0)))

mergePair(out, lo, hi) ==
  IF lo <= out[Len(out)] + 1
  THEN IF hi > out[Len(out)] THEN [out EXCEPT ![Len(out)] = hi] ELSE out
  ELSE out \o <<lo, hi>>

cleanClass(r) ==
  With(sortPairs(r), LAMBDA s :
    IF Len(s) < 2 THEN s
    ELSE forLoop(LAMBDA out, k : mergePair(out, s[2 * k - 1], s[2 * k]), <<s[1], s[2]>>,
                 2, Pairs(s)))

(* The loop of negateClass: the pairs written so far and nextLo.           *)
negateStep(st, lo, hi) ==
  [out |-> IF st.nextLo <= lo - 1 THEN st.out \o <<st.nextLo, lo - 1>> ELSE st.out,
   nextLo |-> hi + 1]

negateClass(r) ==
  With(r, LAMBDA r0 :
    With(forLoop(LAMBDA st, k : negateStep(st, r0[2 * k - 1], r0[2 * k]),
                 [out |-> <<>>, nextLo |-> 0], 1, Pairs(r0)), LAMBDA st :
      IF st.nextLo <= Unicode.MaxRune THEN st.out \o <<st.nextLo, Unicode.MaxRune>>
      ELSE st.out))

(* The groups \d, \s, \w and their negations \D, \S, \W; sign 0: none.     *)
perlGroup(c) ==
  IF c = Runes.d THEN [sign |-> 1, class |-> <<48, 57>>]
  ELSE IF c = ReRunes.D THEN [sign |-> -1, class |-> <<48, 57>>]
  ELSE IF c = ReRunes.s THEN [sign |-> 1, class |-> <<9, 10, 12, 13, 32, 32>>]
  ELSE IF c = ReRunes.S THEN [sign |-> -1, class |-> <<9, 10, 12, 13, 32, 32>>]
  ELSE IF c = ReRunes.w THEN [sign |-> 1, class |-> <<48, 57, 65, 90, 95, 95, 97, 122>>]
  ELSE IF c = ReRunes.W THEN [sign |-> -1, class |-> <<48, 57, 65, 90, 95, 95, 97, 122>>]
  ELSE [sign |-> 0, class |-> <<>>]

(* The groups [:name:]; [:^name:] is the negation.                         *)
posixGroupTable ==
  <<[name |-> <<97, 108, 110, 117, 109>>, class |-> <<48, 57, 65, 90, 97, 122>>],
    [name |-> <<97, 108, 112, 104, 97>>, class |-> <<65, 90, 97, 122>>],
    [name |-> <<97, 115, 99, 105, 105>>, class |-> <<0, 127>>],
    [name |-> <<98, 108, 97, 110, 107>>, class |-> <<9, 9, 32, 32>>],
    [name |-> <<99, 110, 116, 114, 108>>, class |-> <<0, 31, 127, 127>>],
    [name |-> <<100, 105, 103, 105, 116>>, class |-> <<48, 57>>],
    [name |-> <<103, 114, 97, 112, 104>>, class |-> <<33, 126>>],
    [name |-> <<108, 111, 119, 101, 114>>, class |-> <<97, 122>>],
    [name |-> <<112, 114, 105, 110, 116>>, class |-> <<32, 126>>],
    [name |-> <<112, 117, 110, 99, 116>>, class |-> <<33, 47, 58, 64, 91, 96, 123, 126>>],
    [name |-> <<115, 112, 97, 99, 101>>, class |-> <<9, 13, 32, 32>>],
    [name |-> <<117, 112, 112, 101, 114>>, class |-> <<65, 90>>],
    [name |-> <<119, 111, 114, 100>>, class |-> <<48, 57, 65, 90, 95, 95, 97, 122>>],
    [name |-> <<120, 100, 105, 103, 105, 116>>, class |-> <<48, 57, 65, 70, 97, 102>>]>>

(* name is the text between "[:" and ":]".                                 *)
posixGroup(name) ==
  LET neg == name # <<>> /\ name[1] = ReRunes.caret
      base == IF neg THEN Tail(name) ELSE name
      hits == {k \in 1..Len(posixGroupTable) : posixGroupTable[k].name = base}
  IN IF hits = {} THEN [sign |-> 0, class |-> <<>>]
     ELSE [sign |-> IF neg THEN -1 ELSE 1,
           class |-> posixGroupTable[CHOOSE k \in hits : TRUE].class]

appendGroup(flags, r, g) ==
  IF "FoldCase" \notin flags
  THEN IF g.sign < 0 THEN appendNegatedClass(r, g.class) ELSE appendClass(r, g.class)
  ELSE With(cleanClass(appendFoldedClass(<<>>, g.class)), LAMBDA tmp :
         IF g.sign < 0 THEN appendNegatedClass(r, tmp) ELSE appendClass(r, tmp))

(* parseEscape: s[i] is the backslash; r is the rune and next the place    *)
(* behind the escape.                                                      *)
escErr(code, s, i, t) == [err |-> <<code, SubSeq(s, i, t - 1)>>, r |-> 0, next |-> 0]

isOctal(s, t) == t <= Len(s) /\ s[t] >= ReRunes.d0 /\ s[t] <= ReRunes.d7

RECURSIVE escOctal(_, _, _, _)
escOctal(s, t, r, k) ==
  IF k >= 3 \/ ~isOctal(s, t) THEN [err |-> NoErr, r |-> r, next |-> t]
  ELSE escOctal(s, t + 1, r * 8 + s[t] - ReRunes.d0, k + 1)

(* The digits of \x{...}: t is the place of the next rune.                 *)
RECURSIVE escHexBrace(_, _, _, _, _)
escHexBrace(s, i, t, r, nhex) ==
  IF t > Len(s) THEN escErr(ErrInvalidEscape, s, i, t)
  ELSE IF s[t] = SrcRunes.rbrace
  THEN IF nhex = 0 THEN escErr(ErrInvalidEscape, s, i, t + 1)
       ELSE [err |-> NoErr, r |-> r, next |-> t + 1]
  ELSE IF unhex(s[t]) < 0 THEN escErr(ErrInvalidEscape, s, i, t + 1)
  ELSE IF r * 16 + unhex(s[t]) > Unicode.MaxRune THEN escErr(ErrInvalidEscape, s, i, t + 1)
  ELSE escHexBrace(s, i, t + 1, r * 16 + unhex(s[t]), nhex + 1)

parseEscape(s, i) ==
  IF i >= Len(s) THEN [err |-> <<ErrTrailingBackslash, <<>>>>, r |-> 0, next |-> 0]
  ELSE LET c == s[i + 1]
           t == i + 2
           lit(r) == [err |-> NoErr, r |-> r, next |-> t]
       IN IF c > ReRunes.d0 /\ c <= ReRunes.d7
          THEN IF ~isOctal(s, t) THEN escErr(ErrInvalidEscape, s, i, t)
               ELSE escOctal(s, t, c - ReRunes.d0, 1)
          ELSE IF c = ReRunes.d0 THEN escOctal(s, t, 0, 1)
          ELSE IF c = SrcRunes.x
          THEN IF t > Len(s) THEN escErr(ErrInvalidEscape, s, i, t)
               ELSE IF s[t] = SrcRunes.lbrace THEN escHexBrace(s, i, t + 1, 0, 0)
               ELSE LET x == unhex(s[t])
                        y == IF t + 1 <= Len(s) THEN unhex(s[t + 1])
                             ELSE unhex(Unicode.RuneError)
                        t2 == IF t + 1 <= Len(s) THEN t + 2 ELSE t + 1
                    IN IF x < 0 \/ y < 0 THEN escErr(ErrInvalidEscape, s, i, t2)
                       ELSE [err |-> NoErr, r |-> x * 16 + y, next |-> t2]
          ELSE IF c = Runes.a THEN lit(SrcRunes.bel)
          ELSE IF c = Runes.f THEN lit(ReRunes.ff)
          ELSE IF c = ReRunes.n THEN lit(Runes.nl)
          ELSE IF c = ReRunes.r THEN lit(SrcRunes.cr)
          ELSE IF c = ReRunes.t THEN lit(SrcRunes.tab)
          ELSE IF c = ReRunes.v THEN lit(ReRunes.vt)
          ELSE IF c < Unicode.RuneSelf /\ ~isalnum(c) THEN lit(c)
          ELSE escErr(ErrInvalidEscape, s, i, t)

AnyName == <<ReRunes.A, ReRunes.n, ReRunes.y>>

anyTable == <<0, Unicode.MaxRune>>

(* The methods of the parser that several others call are applied through *)
(* parserCall, which is given the name of the method and its arguments and *)
(* applies the body of the method.  TLC unfolds an operator at every       *)
(* application of it when it sets up its coverage statistics, and goes no  *)
(* further only at an operator of a RECURSIVE section that it is unfolding *)
(* already: through parserCall the body of each method is unfolded once.   *)
RECURSIVE parserCall(_, _)

checkLimits(p) == parserCall("checkLimits", <<p>>)

push(p, re) == parserCall("push", <<p, re>>)

literal(p, r) == parserCall("literal", <<p, r>>)

parserOp(p, o) == parserCall("op", <<p, o>>)

collapse(p, subs, o) == parserCall("collapse", <<p, subs, o>>)

concat(p) == parserCall("concat", <<p>>)

alternate(p) == parserCall("alternate", <<p>>)

closeAlternation(p) == parserCall("closeAlternation", <<p>>)

parseStep(p, s, i, lastRepeat) == parserCall("parseStep", <<p, s, i, lastRepeat>>)

(* parser.newRegexp: the regexp is made of the head of the free list, and  *)
(* is a new one, counted in numRegexp, when the list is empty.             *)
newRegexp(p, op) ==
  LET re(size) ==
        [Op |-> op, Rune |-> <<>>, Fold |-> FALSE, Sub |-> <<>>, Min |-> 0, Max |-> 0,
         Flags |-> {}, Cap |-> 0, Name |-> <<>>, size |-> size, height |-> 0]
  IN IF p.free = <<>> THEN [p |-> [p EXCEPT !.numRegexp = @ + 1], re |-> re(0)]
     ELSE [p |-> [p EXCEPT !.free = Tail(@)], re |-> re(Head(p.free))]

(* parser.reuse.                                                           *)
reuse(p, re) == [p EXCEPT !.free = <<re.size>> \o @]

(* The regexp that Parse returns, without its entries in the maps.         *)
plainRegexp(re) ==
  postOrder(re, LAMBDA x : FALSE, LAMBDA x, subs :
    [Op |-> x.Op, Rune |-> x.Rune, Fold |-> x.Fold, Sub |-> subs, Min |-> x.Min,
     Max |-> x.Max, Flags |-> x.Flags, Cap |-> x.Cap, Name |-> x.Name])

(* A panic of the parser: the first one stands.                            *)
raise(p, code) == IF p.panic # "" THEN p ELSE [p EXCEPT !.panic = code]

satAdd(a, b) == IF a + b > Limits.maxSize THEN Limits.maxSize + 1 ELSE a + b

satMul(m, a) ==
  IF m = 0 THEN 0 ELSE IF a > Limits.maxSize \div m THEN Limits.maxSize + 1 ELSE m * a

(* The size that calcSize works out for re from the sizes of its subs.     *)
sizeOfRegexp(re, subs) ==
  LET sum == forLoop(LAMBDA acc, k : satAdd(acc, subs[k].size), 0, 1, Len(subs))
      size == IF re.Op = "OpLiteral" THEN satAdd(Len(re.Rune), 0)
              ELSE IF re.Op \in {"OpCapture", "OpStar"} THEN satAdd(2, subs[1].size)
              ELSE IF re.Op \in {"OpPlus", "OpQuest"} THEN satAdd(1, subs[1].size)
              ELSE IF re.Op = "OpConcat" THEN sum
              ELSE IF re.Op = "OpAlternate"
              THEN IF Len(subs) > 1 THEN satAdd(sum, Len(subs) - 1) ELSE sum
              ELSE IF re.Op = "OpRepeat"
              THEN IF re.Max = -1
                   THEN IF re.Min = 0 THEN satAdd(2, subs[1].size)
                        ELSE satAdd(1, satMul(re.Min, subs[1].size))
                   ELSE satAdd(satMul(re.Max, subs[1].size), re.Max - re.Min)
              ELSE 0
  IN IF size < 1 THEN 1 ELSE size

(* parser.calcSize: the size, and re with the entries of the map size that *)
(* the call writes.  The recursion returns at a regexp with an entry.      *)
calcSize(re, force) ==
  IF ~force /\ re.size # 0 THEN [n |-> re.size, re |-> re]
  ELSE IF \A k \in 1..Len(re.Sub) : re.Sub[k].size # 0
  THEN With(sizeOfRegexp(re, re.Sub), LAMBDA n : [n |-> n, re |-> [re EXCEPT !.size = n]])
  ELSE With(postOrder(re, LAMBDA x : x.size # 0, LAMBDA x, subs :
                        [x EXCEPT !.size = sizeOfRegexp(x, subs), !.Sub = subs]),
            LAMBDA r : [n |-> r.size, re |-> r])

(* The height that calcHeight works out for re from the heights of its     *)
(* subs.                                                                   *)
heightOfRegexp(subs) ==
  forLoop(LAMBDA h, k : Max2(h, 1 + subs[k].height), 1, 1, Len(subs))

(* parser.calcHeight.                                                      *)
calcHeight(re, force) ==
  IF ~force /\ re.height # 0 THEN [n |-> re.height, re |-> re]
  ELSE IF \A k \in 1..Len(re.Sub) : re.Sub[k].height # 0
  THEN With(heightOfRegexp(re.Sub), LAMBDA n : [n |-> n, re |-> [re EXCEPT !.height = n]])
  ELSE With(postOrder(re, LAMBDA x : x.height # 0, LAMBDA x, subs :
                        [x EXCEPT !.height = heightOfRegexp(subs), !.Sub = subs]),
            LAMBDA r : [n |-> r.height, re |-> r])

(* checkSize, checkHeight and checkLimits check the regexp on top of the   *)
(* stack of p: push and repeat have put it there, and factor, whose        *)
(* regexps are off the stack, puts it there for the check.                 *)
(*                                                                         *)
(* The check of the top with a map that exists.                            *)
checkTop(p, calc(_, _), limit, code) ==
  With(calc(p.stack[Len(p.stack)], TRUE), LAMBDA c :
    [(IF c.n > limit THEN raise(p, code) ELSE p) EXCEPT !.stack[Len(p.stack)] = c.re])

(* The check when the map is made: of every regexp on the stack, the top   *)
(* last.                                                                   *)
checkStack(p, calc(_, _), limit, code) ==
  forLoop(LAMBDA q, k :
            With(calc(q.stack[k], TRUE), LAMBDA c :
              [(IF c.n > limit THEN raise(q, code) ELSE q) EXCEPT !.stack[k] = c.re]),
          p, 1, Len(p.stack))

(* parser.checkSize.  While the map size is nil, repeats is the product of *)
(* the counts of the repeats checked, and no size is computed as long as   *)
(* numRegexp is below maxSize / repeats.                                   *)
checkSize(p) ==
  LET re == p.stack[Len(p.stack)]
      r0 == IF p.repeats = 0 THEN 1 ELSE p.repeats
      n0 == IF re.Max = -1 THEN re.Min ELSE re.Max
      n == IF n0 <= 0 THEN 1 ELSE n0
      r1 == IF re.Op # "OpRepeat" THEN r0
            ELSE IF n > Limits.maxSize \div r0 THEN Limits.maxSize ELSE r0 * n
  IN IF p.sizeOn THEN checkTop(p, LAMBDA x, f : calcSize(x, f), Limits.maxSize, ErrLarge)
     ELSE IF p.numRegexp < Limits.maxSize \div r1 THEN [p EXCEPT !.repeats = r1]
     ELSE checkStack([p EXCEPT !.repeats = r1, !.sizeOn = TRUE],
                     LAMBDA x, f : calcSize(x, f), Limits.maxSize, ErrLarge)

checkHeight(p) ==
  IF p.panic # "" \/ p.numRegexp < Limits.maxHeight THEN p
  ELSE IF p.heightOn
  THEN checkTop(p, LAMBDA x, f : calcHeight(x, f), Limits.maxHeight, ErrNestingDepth)
  ELSE checkStack([p EXCEPT !.heightOn = TRUE], LAMBDA x, f : calcHeight(x, f),
                  Limits.maxHeight, ErrNestingDepth)

checkLimitsBody(p) ==
  IF p.panic # "" THEN p
  ELSE IF p.numRunes > Limits.maxRunes THEN raise(p, ErrLarge)
  ELSE checkHeight(checkSize(p))

(* checkLimits of factor, on a regexp that is not on the stack.            *)
checkLimitsOf(p, re) ==
  With(checkLimits([p EXCEPT !.stack = Append(@, re)]), LAMBDA q :
    [p |-> [q EXCEPT !.stack = SubSeq(@, 1, Len(@) - 1)], re |-> q.stack[Len(q.stack)]])

(* maybeConcat: two literals on top of the stack with the same case        *)
(* folding become one; with r >= 0 the upper one is kept as the literal r. *)
maybeConcat(p, r, flags) ==
  LET stack == p.stack
      n == Len(stack)
  IN IF n < 2 THEN [p |-> p, ok |-> FALSE]
     ELSE IF stack[n].Op # "OpLiteral" \/ stack[n - 1].Op # "OpLiteral"
             \/ stack[n].Fold # stack[n - 1].Fold
     THEN [p |-> p, ok |-> FALSE]
     ELSE IF r >= 0
     THEN [p |-> [p EXCEPT !.stack = [stack EXCEPT
                                        ![n - 1].Rune = @ \o stack[n].Rune,
                                        ![n] = setFlags([@ EXCEPT !.Rune = <<r>>], flags)]],
           ok |-> TRUE]
     ELSE [p |-> reuse([p EXCEPT !.stack = [SubSeq(stack, 1, n - 1) EXCEPT
                                             ![n - 1].Rune = @ \o stack[n].Rune]],
                       stack[n]),
           ok |-> FALSE]

isFoldPair(rs) ==
  \/ /\ Len(rs) = 4 /\ rs[1] = rs[2] /\ rs[3] = rs[4]
     /\ SimpleFold(rs[1]) = rs[3] /\ SimpleFold(rs[3]) = rs[1]
  \/ /\ Len(rs) = 2 /\ rs[1] + 1 = rs[2]
     /\ SimpleFold(rs[1]) = rs[2] /\ SimpleFold(rs[2]) = rs[1]

(* The end of push: re goes on the stack and checkLimits checks it.        *)
pushChecked(p, re) == With([p EXCEPT !.stack = Append(@, re)], checkLimits)

pushLiteral(p, re, flags) ==
  IF maybeConcat(p, re.Rune[1], flags).ok THEN maybeConcat(p, re.Rune[1], flags).p
  ELSE pushChecked(p, setFlags([re EXCEPT !.Op = "OpLiteral", !.Rune = <<re.Rune[1]>>],
                               flags))

(* parser.push: the regexp pushed is the top of the stack afterwards.      *)
pushBody(p, re) ==
  IF re.Op = "OpCharClass" /\ Len(re.Rune) = 2 /\ re.Rune[1] = re.Rune[2]
  THEN pushLiteral([p EXCEPT !.numRunes = @ + Len(re.Rune)], re, p.flags \ {"FoldCase"})
  ELSE IF re.Op = "OpCharClass" /\ isFoldPair(re.Rune)
  THEN pushLiteral([p EXCEPT !.numRunes = @ + Len(re.Rune)], re, p.flags \cup {"FoldCase"})
  ELSE pushChecked(maybeConcat([p EXCEPT !.numRunes = @ + Len(re.Rune)], -1, {}).p, re)

newLiteral(p, r, flags) ==
  [p |-> newRegexp(p, "OpLiteral").p,
   re |-> setFlags([newRegexp(p, "OpLiteral").re EXCEPT
                      !.Rune = <<IF "FoldCase" \in flags THEN minFoldRune(r) ELSE r>>],
                   flags)]

literalBody(p, r) == push(newLiteral(p, r, p.flags).p, newLiteral(p, r, p.flags).re)

parserOpBody(p, o) == push(newRegexp(p, o).p, setFlags(newRegexp(p, o).re, p.flags))

RECURSIVE repeatIsValid(_, _)
repeatIsValid(re, n) ==
  LET m == IF re.Max < 0 THEN re.Min ELSE re.Max
      n1 == IF re.Op = "OpRepeat" /\ m > 0 THEN n \div m ELSE n
  IN IF re.Op = "OpRepeat" /\ re.Max = 0 THEN TRUE
     ELSE IF re.Op = "OpRepeat" /\ m > n THEN FALSE
     ELSE \A k \in 1..Len(re.Sub) : repeatIsValid(re.Sub[k], n1)

(* parser.repeat: before and after are the places of the operator and of   *)
(* the text behind it, lastRepeat the place of the operator just before    *)
(* (0: none).                                                              *)
repeat(p, s, o, min, max, before, after, lastRepeat) ==
  LET lazy == "PerlX" \in p.flags /\ after <= Len(s) /\ s[after] = ReRunes.quest
      after1 == IF lazy THEN after + 1 ELSE after
      flags == IF lazy
               THEN IF "NonGreedy" \in p.flags THEN p.flags \ {"NonGreedy"}
                    ELSE p.flags \cup {"NonGreedy"}
               ELSE p.flags
      n == Len(p.stack)
  IN IF "PerlX" \in p.flags /\ lastRepeat # 0
     THEN [err |-> <<ErrInvalidRepeatOp, SubSeq(s, lastRepeat, after1 - 1)>>, p |-> p,
           next |-> 0]
     ELSE IF n = 0 \/ isPseudo(p.stack[n])
     THEN [err |-> <<ErrMissingRepeatArgument, SubSeq(s, before, after1 - 1)>>, p |-> p,
           next |-> 0]
     ELSE With(checkLimits([newRegexp(p, o).p EXCEPT !.stack[n] =
                              setFlags([newRegexp(p, o).re EXCEPT
                                          !.Min = min, !.Max = max, !.Sub = <<p.stack[n]>>],
                                       flags)]), LAMBDA q :
            IF /\ q.panic = "" /\ o = "OpRepeat" /\ (min >= 2 \/ max >= 2)
               /\ ~repeatIsValid(q.stack[n], 1000)
            THEN [err |-> <<ErrInvalidRepeatSize, SubSeq(s, before, after1 - 1)>>,
                  p |-> q, next |-> 0]
            ELSE [err |-> NoErr, p |-> q, next |-> after1])

isCharClass(re) ==
  \/ re.Op = "OpLiteral" /\ Len(re.Rune) = 1
  \/ re.Op \in {"OpCharClass", "OpAnyCharNotNL", "OpAnyChar"}

matchRune(re, r) ==
  IF re.Op = "OpLiteral" THEN Len(re.Rune) = 1 /\ re.Rune[1] = r
  ELSE IF re.Op = "OpCharClass" THEN inClass(re.Rune, r)
  ELSE IF re.Op = "OpAnyCharNotNL" THEN r # Runes.nl
  ELSE re.Op = "OpAnyChar"

mergeCharClass(dst, src) ==
  IF dst.Op = "OpAnyChar" THEN dst
  ELSE IF dst.Op = "OpAnyCharNotNL"
  THEN IF matchRune(src, Runes.nl) THEN [dst EXCEPT !.Op = "OpAnyChar"] ELSE dst
  ELSE IF dst.Op = "OpCharClass"
  THEN IF src.Op = "OpLiteral"
       THEN [dst EXCEPT !.Rune = appendLiteral(@, src.Rune[1], src.Flags)]
       ELSE [dst EXCEPT !.Rune = appendClass(@, src.Rune)]
  ELSE IF dst.Op = "OpLiteral"
  THEN IF src.Rune[1] = dst.Rune[1] /\ src.Flags = dst.Flags THEN dst
       ELSE [dst EXCEPT !.Op = "OpCharClass",
                        !.Rune = appendLiteral(appendLiteral(<<>>, dst.Rune[1], dst.Flags),
                                               src.Rune[1], src.Flags)]
  ELSE dst

cleanAlt(re) ==
  IF re.Op # "OpCharClass" THEN re
  ELSE With(cleanClass(re.Rune), LAMBDA r :
         IF r = <<0, Unicode.MaxRune>> THEN [re EXCEPT !.Op = "OpAnyChar", !.Rune = <<>>]
         ELSE IF r = <<0, Runes.nl - 1, Runes.nl + 1, Unicode.MaxRune>>
         THEN [re EXCEPT !.Op = "OpAnyCharNotNL", !.Rune = <<>>]
         ELSE [re EXCEPT !.Rune = r])

(* Regexp.Equal.                                                           *)
RECURSIVE Equal(_, _)
Equal(x, y) ==
  IF x.Op = "nil" \/ y.Op = "nil" THEN x.Op = y.Op
  ELSE IF x.Op # y.Op THEN FALSE
  ELSE IF x.Op = "OpEndText" THEN ("WasDollar" \in x.Flags) = ("WasDollar" \in y.Flags)
  ELSE IF x.Op \in {"OpLiteral", "OpCharClass"} THEN x.Rune = y.Rune
  ELSE IF x.Op \in {"OpAlternate", "OpConcat"}
  THEN Len(x.Sub) = Len(y.Sub) /\ \A k \in 1..Len(x.Sub) : Equal(x.Sub[k], y.Sub[k])
  ELSE IF x.Op \in {"OpStar", "OpPlus", "OpQuest"}
  THEN ("NonGreedy" \in x.Flags) = ("NonGreedy" \in y.Flags) /\ Equal(x.Sub[1], y.Sub[1])
  ELSE IF x.Op = "OpRepeat"
  THEN /\ ("NonGreedy" \in x.Flags) = ("NonGreedy" \in y.Flags)
       /\ x.Min = y.Min /\ x.Max = y.Max /\ Equal(x.Sub[1], y.Sub[1])
  ELSE IF x.Op = "OpCapture"
  THEN x.Cap = y.Cap /\ x.Name = y.Name /\ Equal(x.Sub[1], y.Sub[1])
  ELSE TRUE

(* leadingString: the runes and the case folding of the literal re begins  *)
(* with.                                                                   *)
leadingString(re) ==
  LET first == IF re.Op = "OpConcat" /\ Len(re.Sub) > 0 THEN re.Sub[1] ELSE re
  IN IF first.Op # "OpLiteral" THEN [str |-> <<>>, fold |-> FALSE]
     ELSE [str |-> first.Rune, fold |-> first.Fold]

RECURSIVE removeLeadingString(_, _, _)
removeLeadingString(p, re, n) ==
  IF re.Op = "OpConcat" /\ Len(re.Sub) > 0
  THEN With(removeLeadingString(p, re.Sub[1], n), LAMBDA r :
         IF r.re.Op # "OpEmptyMatch" THEN [p |-> r.p, re |-> [re EXCEPT !.Sub[1] = r.re]]
         ELSE With(reuse(r.p, r.re), LAMBDA q :
                IF Len(re.Sub) = 1
                THEN [p |-> q, re |-> [re EXCEPT !.Op = "OpEmptyMatch", !.Sub = <<>>]]
                ELSE IF Len(re.Sub) = 2 THEN [p |-> reuse(q, re), re |-> re.Sub[2]]
                ELSE [p |-> q, re |-> [re EXCEPT !.Sub = Tail(@)]]))
  ELSE IF re.Op = "OpLiteral"
  THEN IF Len(re.Rune) <= n
       THEN [p |-> p, re |-> [re EXCEPT !.Op = "OpEmptyMatch", !.Rune = <<>>]]
       ELSE [p |-> p, re |-> [re EXCEPT !.Rune = SubSeq(@, n + 1, Len(@))]]
  ELSE [p |-> p, re |-> re]

leadingRegexp(re) ==
  IF re.Op = "OpEmptyMatch" THEN NilRegexp
  ELSE IF re.Op = "OpConcat" /\ Len(re.Sub) > 0
  THEN IF re.Sub[1].Op = "OpEmptyMatch" THEN NilRegexp ELSE re.Sub[1]
  ELSE re

removeLeadingRegexp(p, re, reuseFirst) ==
  IF re.Op = "OpConcat" /\ Len(re.Sub) > 0
  THEN With(IF reuseFirst THEN reuse(p, re.Sub[1]) ELSE p, LAMBDA q :
         IF Len(re.Sub) = 1
         THEN [p |-> q, re |-> [re EXCEPT !.Op = "OpEmptyMatch", !.Sub = <<>>]]
         ELSE IF Len(re.Sub) = 2 THEN [p |-> reuse(q, re), re |-> re.Sub[2]]
         ELSE [p |-> q, re |-> [re EXCEPT !.Sub = Tail(@)]])
  ELSE newRegexp(IF reuseFirst THEN reuse(p, re) ELSE p, "OpEmptyMatch")

commonPrefix(a, b, same) ==
  whileLoop(LAMBDA k : k + 1,
            LAMBDA k : ~(k < Len(a) /\ k < Len(b) /\ a[k + 1] = b[k + 1]), same)

(* The loop of collapse: the subs of a sub with the operator o take its    *)
(* place, and the sub is reused.                                           *)
flattenSubs(p, subs, o, i, out) ==
  forLoop(LAMBDA acc, k :
            IF subs[k].Op = o
            THEN [p |-> reuse(acc.p, subs[k]), out |-> acc.out \o subs[k].Sub]
            ELSE [p |-> acc.p, out |-> Append(acc.out, subs[k])],
          [p |-> p, out |-> out], i, Len(subs))

RECURSIVE factor(_, _)
RECURSIVE factorStrings(_, _, _, _, _, _, _)
RECURSIVE factorPrefixes(_, _, _, _, _, _)
RECURSIVE factorClasses(_, _, _, _, _)
RECURSIVE factoredString(_, _, _, _, _, _, _)
RECURSIVE factoredPrefix(_, _, _, _, _, _)

(* The factored form of round 1 for the run sub[start .. i - 1]: the       *)
(* literal str and the alternation of what is left of each.                *)
factoredString(p, sub, start, i, str, strflags, out) ==
  With(forLoop(LAMBDA acc, j :
                 With(removeLeadingString(acc.p, sub[j], Len(str)), LAMBDA r :
                   With(checkLimitsOf(r.p, r.re), LAMBDA c :
                     [p |-> c.p, run |-> Append(acc.run, c.re)])),
               [p |-> newRegexp(p, "OpLiteral").p, run |-> <<>>], start, i - 1), LAMBDA rm :
    With(collapse(rm.p, rm.run, "OpAlternate"), LAMBDA suffix :
      [p |-> newRegexp(suffix.p, "OpConcat").p,
       out |-> Append(out,
                 [newRegexp(suffix.p, "OpConcat").re EXCEPT !.Sub =
                    <<setFlags([newRegexp(p, "OpLiteral").re EXCEPT !.Rune = str],
                               IF strflags THEN {"FoldCase"} ELSE {}),
                      suffix.re>>])]))

(* Round 1 of factor: the runs of regexps that begin with the same         *)
(* literal text become the text and the alternation of what is left.  i    *)
(* runs from 1 to Len(sub) + 1; start is the place before the run.         *)
factorStrings(p, sub, i, start, str, strflags, out) ==
  With(forLoop(
         LAMBDA st, k :
           With(IF k <= Len(sub) THEN leadingString(sub[k])
                ELSE [str |-> <<>>, fold |-> FALSE], LAMBDA ls :
             With(commonPrefix(st.str, ls.str, 0), LAMBDA same :
               IF k <= Len(sub) /\ ls.fold = st.strflags /\ same > 0
               THEN [st EXCEPT !.str = SubSeq(st.str, 1, same)]
               ELSE With(IF k = st.start THEN [p |-> st.p, out |-> st.out]
                         ELSE IF k = st.start + 1
                         THEN [p |-> st.p, out |-> Append(st.out, sub[st.start])]
                         ELSE factoredString(st.p, sub, st.start, k, st.str, st.strflags,
                                             st.out), LAMBDA r :
                      [p |-> r.p, start |-> k, str |-> ls.str, strflags |-> ls.fold,
                       out |-> r.out]))),
         [p |-> p, start |-> start, str |-> str, strflags |-> strflags, out |-> out],
         i, Len(sub) + 1), LAMBDA st : [p |-> st.p, out |-> st.out])

(* The factored form of round 2 for the run sub[start .. i - 1]: first,    *)
(* the leading regexp of sub[start], and the alternation of what is left.  *)
factoredPrefix(p, sub, start, i, first, out) ==
  With(forLoop(LAMBDA acc, j :
                 With(removeLeadingRegexp(acc.p, sub[j], j # start), LAMBDA r :
                   With(checkLimitsOf(r.p, r.re), LAMBDA c :
                     [p |-> c.p, run |-> Append(acc.run, c.re)])),
               [p |-> p, run |-> <<>>], start, i - 1), LAMBDA rm :
    With(collapse(rm.p, rm.run, "OpAlternate"), LAMBDA suffix :
      [p |-> newRegexp(suffix.p, "OpConcat").p,
       out |-> Append(out, [newRegexp(suffix.p, "OpConcat").re EXCEPT
                              !.Sub = <<first, suffix.re>>])]))

(* Round 2: the runs that begin with the same character class, or the same *)
(* fixed repeat of one.                                                    *)
factorPrefixes(p, sub, i, start, first, out) ==
  With(forLoop(
         LAMBDA st, k :
           With(IF k <= Len(sub) THEN leadingRegexp(sub[k]) ELSE NilRegexp, LAMBDA ifirst :
             IF /\ k <= Len(sub) /\ st.first.Op # "nil" /\ Equal(st.first, ifirst)
                /\ \/ isCharClass(st.first)
                   \/ st.first.Op = "OpRepeat" /\ st.first.Min = st.first.Max
                      /\ isCharClass(st.first.Sub[1])
             THEN st
             ELSE With(IF k = st.start THEN [p |-> st.p, out |-> st.out]
                       ELSE IF k = st.start + 1
                       THEN [p |-> st.p, out |-> Append(st.out, sub[st.start])]
                       ELSE factoredPrefix(st.p, sub, st.start, k, st.first, st.out),
                       LAMBDA r :
                    [p |-> r.p, start |-> k, first |-> ifirst, out |-> r.out])),
         [p |-> p, start |-> start, first |-> first, out |-> out], i, Len(sub) + 1),
       LAMBDA st : [p |-> st.p, out |-> st.out])

maxOfRun(sub, j, i, max) ==
  forLoop(LAMBDA m, k : IF \/ OpRank[sub[m].Op] < OpRank[sub[k].Op]
                           \/ /\ sub[m].Op = sub[k].Op
                              /\ Len(sub[m].Rune) < Len(sub[k].Rune)
                        THEN k ELSE m,
          max, j, i - 1)

(* The loop of round 3 over sub[j .. i - 1]: each is merged into dst and   *)
(* reused.                                                                 *)
mergeRun(p, dst, sub, j, i) ==
  forLoop(LAMBDA acc, k : [p |-> reuse(acc.p, sub[k]), re |-> mergeCharClass(acc.re, sub[k])],
          [p |-> p, re |-> dst], j, i - 1)

(* Round 3: the runs of single runes and classes become one class.         *)
factorClasses(p, sub, i, start, out) ==
  With(forLoop(
         LAMBDA st, k :
           IF k <= Len(sub) /\ isCharClass(sub[k]) THEN st
           ELSE With(
                  IF k = st.start THEN [p |-> st.p, out |-> st.out]
                  ELSE IF k = st.start + 1
                  THEN [p |-> st.p, out |-> Append(st.out, sub[st.start])]
                  ELSE With(maxOfRun(sub, st.start + 1, k, st.start), LAMBDA max :
                         With([sub EXCEPT ![st.start] = sub[max], ![max] = sub[st.start]],
                              LAMBDA sw :
                           With(mergeRun(st.p, sw[st.start], sw, st.start + 1, k),
                                LAMBDA m :
                             [p |-> m.p, out |-> Append(st.out, cleanAlt(m.re))]))),
                  LAMBDA r :
                    [p |-> r.p, start |-> k + 1,
                     out |-> IF k <= Len(sub) THEN Append(r.out, sub[k]) ELSE r.out]),
         [p |-> p, start |-> start, out |-> out], i, Len(sub) + 1),
       LAMBDA st : [p |-> st.p, out |-> st.out])

(* Round 4: of a run of empty matches the last one is kept.                *)
factorEmpty(sub, i, out) ==
  forLoop(LAMBDA acc, k : IF k + 1 <= Len(sub) /\ sub[k].Op = "OpEmptyMatch"
                             /\ sub[k + 1].Op = "OpEmptyMatch"
                          THEN acc ELSE Append(acc, sub[k]),
          out, i, Len(sub))

factor(p, sub) ==
  IF Len(sub) < 2 THEN [p |-> p, sub |-> sub]
  ELSE With(factorStrings(p, sub, 1, 1, <<>>, FALSE, <<>>), LAMBDA s1 :
         With(factorPrefixes(s1.p, s1.out, 1, 1, NilRegexp, <<>>), LAMBDA s2 :
           With(factorClasses(s2.p, s2.out, 1, 1, <<>>), LAMBDA s3 :
             [p |-> s3.p, sub |-> factorEmpty(s3.out, 1, <<>>)])))

collapseBody(p, subs, o) ==
  IF Len(subs) = 1 THEN [p |-> p, re |-> subs[1]]
  ELSE With(newRegexp(p, o), LAMBDA x :
         With(flattenSubs(x.p, subs, o, 1, <<>>), LAMBDA flat :
           IF o # "OpAlternate" THEN [p |-> flat.p, re |-> [x.re EXCEPT !.Sub = flat.out]]
           ELSE With(factor(flat.p, flat.out), LAMBDA f :
                  IF Len(f.sub) = 1 THEN [p |-> reuse(f.p, x.re), re |-> f.sub[1]]
                  ELSE [p |-> f.p, re |-> [x.re EXCEPT !.Sub = f.sub]])))

(* The number of regexps on top of the stack above the topmost             *)
(* pseudo-operator.                                                        *)
aboveMark(stack, k) ==
  whileLoop(LAMBDA j : j + 1,
            LAMBDA j : ~(j < Len(stack) /\ ~isPseudo(stack[Len(stack) - j])), k)

concatBody(p) ==
  With(maybeConcat(p, -1, {}).p, LAMBDA q :
    With(aboveMark(q.stack, 0), LAMBDA k :
      IF k = 0
      THEN push(newRegexp(q, "OpEmptyMatch").p, newRegexp(q, "OpEmptyMatch").re)
      ELSE With(collapse([q EXCEPT !.stack = SubSeq(@, 1, Len(@) - k)],
                         SubSeq(q.stack, Len(q.stack) - k + 1, Len(q.stack)), "OpConcat"),
                LAMBDA c : push(c.p, c.re))))

alternateBody(p) ==
  With(aboveMark(p.stack, 0), LAMBDA k :
    IF k = 0 THEN push(newRegexp(p, "OpNoMatch").p, newRegexp(p, "OpNoMatch").re)
    ELSE With(collapse([p EXCEPT !.stack = SubSeq(@, 1, Len(@) - k)],
                       [SubSeq(p.stack, Len(p.stack) - k + 1, Len(p.stack))
                          EXCEPT ![k] = cleanAlt(@)], "OpAlternate"),
              LAMBDA c : push(c.p, c.re)))

(* swapVerticalBar: the concatenation on top goes below the bar under it;  *)
(* two classes around the bar become one class.                            *)
swapVerticalBar(p) ==
  LET n == Len(p.stack)
  IN IF n >= 3 /\ p.stack[n - 1].Op = "opVerticalBar" /\ isCharClass(p.stack[n])
        /\ isCharClass(p.stack[n - 2])
     THEN LET swap == OpRank[p.stack[n].Op] > OpRank[p.stack[n - 2].Op]
              re1 == IF swap THEN p.stack[n - 2] ELSE p.stack[n]
              re3 == IF swap THEN p.stack[n] ELSE p.stack[n - 2]
          IN [p |-> reuse([p EXCEPT !.stack = [SubSeq(p.stack, 1, n - 1) EXCEPT
                                                 ![n - 2] = mergeCharClass(re3, re1)]],
                              re1),
              ok |-> TRUE]
     ELSE IF n >= 2 /\ p.stack[n - 1].Op = "opVerticalBar"
     THEN [p |-> [p EXCEPT !.stack =
                    IF n >= 3
                    THEN [p.stack EXCEPT ![n - 2] = cleanAlt(@), ![n - 1] = p.stack[n],
                                         ![n] = p.stack[n - 1]]
                    ELSE [p.stack EXCEPT ![n - 1] = p.stack[n], ![n] = p.stack[n - 1]]],
           ok |-> TRUE]
     ELSE [p |-> p, ok |-> FALSE]

parseVerticalBar(p) ==
  With(swapVerticalBar(concat(p)), LAMBDA sw :
    IF sw.ok THEN sw.p ELSE parserOp(sw.p, "opVerticalBar"))

(* The end of an alternation, at a right parenthesis and at the end of the *)
(* regex: concat, the bar on top dropped, alternate.                       *)
closeAlternationBody(p) ==
  With(swapVerticalBar(concat(p)), LAMBDA sw :
    alternate(IF sw.ok THEN [sw.p EXCEPT !.stack = SubSeq(@, 1, Len(@) - 1)] ELSE sw.p))

parseRightParen(p, s) ==
  With(closeAlternation(p), LAMBDA q :
    LET n == Len(q.stack)
    IN IF n < 2 \/ q.stack[n - 1].Op # "opLeftParen"
       THEN [err |-> <<ErrUnexpectedParen, s>>, p |-> q]
       ELSE With([q EXCEPT !.stack = SubSeq(@, 1, n - 2), !.flags = q.stack[n - 1].Flags],
                 LAMBDA base :
              IF q.stack[n - 1].Cap = 0 THEN [err |-> NoErr, p |-> push(base, q.stack[n])]
              ELSE [err |-> NoErr,
                    p |-> push(base, [q.stack[n - 1] EXCEPT !.Op = "OpCapture",
                                                            !.Sub = <<q.stack[n]>>])]))

(* The place of the first x in s from i on, 0 if there is none.            *)
indexRune(s, i, x) ==
  With(whileLoop(LAMBDA j : j + 1, LAMBDA j : j > Len(s) \/ s[j] = x, i), LAMBDA j :
    IF j > Len(s) THEN 0 ELSE j)

isValidCaptureName(name) ==
  name # <<>> /\ \A k \in 1..Len(name) : name[k] = SrcRunes.under \/ isalnum(name[k])

(* The loop of parsePerlFlags over the flags behind "(?"; neg says that a  *)
(* minus was read, and the flags read then are taken away.                 *)
RECURSIVE perlFlagsLoop(_, _, _, _, _, _, _)
perlFlagsLoop(p, s, i, t, flags, neg, sawFlag) ==
  IF t > Len(s) THEN [err |-> <<ErrInvalidPerlOp, SubSeq(s, i, t - 1)>>, p |-> p, next |-> 0]
  ELSE LET c == s[t]
           bad == [err |-> <<ErrInvalidPerlOp, SubSeq(s, i, t)>>, p |-> p, next |-> 0]
           set(f) == IF neg THEN flags \ {f} ELSE flags \cup {f}
           clear(f) == IF neg THEN flags \cup {f} ELSE flags \ {f}
       IN IF c = ReRunes.i THEN perlFlagsLoop(p, s, i, t + 1, set("FoldCase"), neg, TRUE)
          ELSE IF c = ReRunes.m
          THEN perlFlagsLoop(p, s, i, t + 1, clear("OneLine"), neg, TRUE)
          ELSE IF c = ReRunes.s THEN perlFlagsLoop(p, s, i, t + 1, set("DotNL"), neg, TRUE)
          ELSE IF c = ReRunes.U
          THEN perlFlagsLoop(p, s, i, t + 1, set("NonGreedy"), neg, TRUE)
          ELSE IF c = ReRunes.minus
          THEN IF neg THEN bad ELSE perlFlagsLoop(p, s, i, t + 1, flags, TRUE, FALSE)
          ELSE IF c \in {ReRunes.colon, ReRunes.rparen}
          THEN IF neg /\ ~sawFlag THEN bad
               ELSE [err |-> NoErr,
                     p |-> [(IF c = ReRunes.colon THEN parserOp(p, "opLeftParen") ELSE p)
                              EXCEPT !.flags = flags],
                     next |-> t + 1]
          ELSE bad

(* parsePerlFlags: s[i] is the parenthesis and s[i + 1] the question mark. *)
parsePerlFlags(p, s, i) ==
  LET len == Len(s) - i + 1
      startsWithP == len > 4 /\ s[i + 2] = ReRunes.P /\ s[i + 3] = SrcRunes.lt
      startsWithName == len > 3 /\ s[i + 2] = SrcRunes.lt
      end == indexRune(s, i, SrcRunes.gt)
      name == SubSeq(s, i + (IF startsWithName THEN 3 ELSE 4), end - 1)
  IN IF startsWithP \/ startsWithName
     THEN IF end = 0
          THEN [err |-> <<ErrInvalidNamedCapture, SubSeq(s, i, Len(s))>>, p |-> p, next |-> 0]
          ELSE IF ~isValidCaptureName(name)
          THEN [err |-> <<ErrInvalidNamedCapture, SubSeq(s, i, end)>>, p |-> p, next |-> 0]
          ELSE With(parserOp([p EXCEPT !.numCap = @ + 1], "opLeftParen"), LAMBDA q :
                 [err |-> NoErr,
                  p |-> [q EXCEPT !.stack[Len(q.stack)].Cap = q.numCap,
                                  !.stack[Len(q.stack)].Name = name],
                  next |-> end + 1])
     ELSE perlFlagsLoop(p, s, i, i + 2, p.flags, FALSE, FALSE)

isDigit(s, t) == t <= Len(s) /\ s[t] >= ReRunes.d0 /\ s[t] <= ReRunes.d9

RECURSIVE skipDigits(_, _)
skipDigits(s, t) == IF isDigit(s, t) THEN skipDigits(s, t + 1) ELSE t

RECURSIVE intValue(_, _, _, _)
intValue(s, t, end, n) ==
  IF t >= end THEN n
  ELSE IF n >= 100000000 THEN -1
  ELSE intValue(s, t + 1, end, n * 10 + s[t] - ReRunes.d0)

parseInt(s, t) ==
  IF ~isDigit(s, t) THEN [ok |-> FALSE, n |-> 0, next |-> t]
  ELSE IF s[t] = ReRunes.d0 /\ isDigit(s, t + 1) THEN [ok |-> FALSE, n |-> 0, next |-> t]
  ELSE With(skipDigits(s, t), LAMBDA end :
         [ok |-> TRUE, n |-> intValue(s, t, end, 0), next |-> end])

(* parseRepeat: s[i] is the left brace.                                    *)
parseRepeat(s, i) ==
  LET no == [ok |-> FALSE, min |-> 0, max |-> 0, next |-> 0]
      close(min, max, t) ==
        IF t <= Len(s) /\ s[t] = SrcRunes.rbrace
        THEN [ok |-> TRUE, min |-> min, max |-> max, next |-> t + 1] ELSE no
  IN With(parseInt(s, i + 1), LAMBDA lo :
       IF ~lo.ok \/ lo.next > Len(s) THEN no
       ELSE IF s[lo.next] # ReRunes.comma THEN close(lo.n, lo.n, lo.next)
       ELSE IF lo.next + 1 > Len(s) THEN no
       ELSE IF s[lo.next + 1] = SrcRunes.rbrace THEN close(lo.n, -1, lo.next + 1)
       ELSE With(parseInt(s, lo.next + 1), LAMBDA hi :
              IF ~hi.ok THEN no
              ELSE close(IF hi.n < 0 THEN -1 ELSE lo.n, hi.n, hi.next)))

(* parsePerlClassEscape: found says that s has \d, \s, \w, \D, \S or \W at *)
(* i.                                                                      *)
parsePerlClassEscape(flags, s, i, r) ==
  IF "PerlX" \notin flags \/ i + 1 > Len(s) \/ s[i] # SrcRunes.bslash
     \/ perlGroup(s[i + 1]).sign = 0
  THEN [found |-> FALSE, class |-> r, next |-> i]
  ELSE [found |-> TRUE, class |-> appendGroup(flags, r, perlGroup(s[i + 1])), next |-> i + 2]

(* The place of the first ":]" in s from i on, 0 if there is none.         *)
indexColonBracket(s, i) ==
  With(whileLoop(LAMBDA j : j + 1,
                 LAMBDA j : j + 1 > Len(s)
                            \/ (s[j] = ReRunes.colon /\ s[j + 1] = ReRunes.rbrack), i),
       LAMBDA j : IF j + 1 > Len(s) THEN 0 ELSE j)

(* parseNamedClass: s has "[:" at i.                                       *)
parseNamedClass(flags, s, i, r) ==
  With(indexColonBracket(s, i + 2), LAMBDA k :
    IF k = 0 THEN [err |-> NoErr, found |-> FALSE, class |-> r, next |-> i]
    ELSE With(posixGroup(SubSeq(s, i + 2, k - 1)), LAMBDA g :
           IF g.sign = 0
           THEN [err |-> <<ErrInvalidCharRange, SubSeq(s, i, k + 1)>>, found |-> FALSE,
                 class |-> r, next |-> 0]
           ELSE [err |-> NoErr, found |-> TRUE, class |-> appendGroup(flags, r, g),
                 next |-> k + 2]))

(* unicodeTable: the table of the name and its fold table; no pairs for    *)
(* the nil of the code.                                                    *)
unicodeTable(name) ==
  IF name = AnyName THEN [tab |-> anyTable, fold |-> anyTable]
  ELSE With(Categories(name), LAMBDA c :
         IF c # <<>> THEN [tab |-> c, fold |-> FoldCategory(name)]
         ELSE With(Scripts(name), LAMBDA sc :
                IF sc # <<>> THEN [tab |-> sc, fold |-> FoldScript(name)]
                ELSE [tab |-> <<>>, fold |-> <<>>]))

appendTable(r, x) == appendClass(r, x)

appendNegatedTable(r, x) == appendNegatedClass(r, x)

(* parseUnicodeClass: found says that s has \p or \P at i.                 *)
parseUnicodeClass(flags, s, i, r) ==
  IF "UnicodeGroups" \notin flags \/ i + 1 > Len(s) \/ s[i] # SrcRunes.bslash
     \/ s[i + 1] \notin {ReRunes.p, ReRunes.P}
  THEN [err |-> NoErr, found |-> FALSE, class |-> r, next |-> i]
  ELSE LET braces == i + 2 <= Len(s) /\ s[i + 2] = SrcRunes.lbrace
           end == indexRune(s, i, SrcRunes.rbrace)
           t == IF braces THEN end + 1 ELSE IF i + 2 <= Len(s) THEN i + 3 ELSE i + 2
           seq == SubSeq(s, i, t - 1)
           name0 == IF braces THEN SubSeq(s, i + 3, end - 1) ELSE SubSeq(s, i + 2, t - 1)
           flip == name0 # <<>> /\ name0[1] = ReRunes.caret
           name == IF flip THEN Tail(name0) ELSE name0
           positive == (s[i + 1] = ReRunes.p) # flip
       IN IF braces /\ end = 0
          THEN [err |-> <<ErrInvalidCharRange, SubSeq(s, i, Len(s))>>, found |-> FALSE,
                class |-> r, next |-> 0]
          ELSE With(unicodeTable(name), LAMBDA u :
            IF u.tab = <<>>
            THEN [err |-> <<ErrInvalidCharRange, seq>>, found |-> FALSE, class |-> r,
                  next |-> 0]
            ELSE IF "FoldCase" \notin flags \/ u.fold = <<>>
            THEN [err |-> NoErr, found |-> TRUE,
                  class |-> IF positive THEN appendTable(r, u.tab)
                            ELSE appendNegatedTable(r, u.tab),
                  next |-> t]
            ELSE With(cleanClass(appendTable(appendTable(<<>>, u.tab), u.fold)), LAMBDA tmp :
                   [err |-> NoErr, found |-> TRUE,
                    class |-> IF positive THEN appendClass(r, tmp)
                              ELSE appendNegatedClass(r, tmp),
                    next |-> t]))

(* parseClassChar: whole is the place of the left bracket of the class.    *)
parseClassChar(s, t, whole) ==
  IF t > Len(s)
  THEN [err |-> <<ErrMissingBracket, SubSeq(s, whole, Len(s))>>, r |-> 0, next |-> 0]
  ELSE IF s[t] = SrcRunes.bslash THEN parseEscape(s, t)
  ELSE [err |-> NoErr, r |-> s[t], next |-> t + 1]

(* The loop of parseClass: t is the place of the next rune, class the      *)
(* pairs so far.                                                           *)
(* The state of the loop is the error, class, the place next of the next   *)
(* rune, first and brk, which says that the loop is left.                  *)
parseClassStep(flags, s, whole, st) ==
  LET t == st.next
      fail(e) == [st EXCEPT !.err = e, !.next = 0, !.brk = TRUE]
      cont(n, c) == [st EXCEPT !.next = n, !.class = c, !.first = FALSE]
  IN
  IF t <= Len(s) /\ s[t] = ReRunes.rbrack /\ ~st.first
  THEN [st EXCEPT !.next = t + 1, !.brk = TRUE]
  ELSE IF /\ t <= Len(s) /\ s[t] = ReRunes.minus /\ "PerlX" \notin flags /\ ~st.first
          /\ (t = Len(s) \/ s[t + 1] # ReRunes.rbrack)
  THEN fail(<<ErrInvalidCharRange, SubSeq(s, t, t + 1)>>)
  ELSE With(IF t + 2 <= Len(s) /\ s[t] = ReRunes.lbrack /\ s[t + 1] = ReRunes.colon
            THEN parseNamedClass(flags, s, t, st.class)
            ELSE [err |-> NoErr, found |-> FALSE, class |-> st.class, next |-> t], LAMBDA nc :
    IF nc.err # NoErr THEN fail(nc.err)
    ELSE IF nc.found THEN cont(nc.next, nc.class)
    ELSE With(parseUnicodeClass(flags, s, t, st.class), LAMBDA uc :
      IF uc.err # NoErr THEN fail(uc.err)
      ELSE IF uc.found THEN cont(uc.next, uc.class)
      ELSE With(parsePerlClassEscape(flags, s, t, st.class), LAMBDA pc :
        IF pc.found THEN cont(pc.next, pc.class)
        ELSE With(parseClassChar(s, t, whole), LAMBDA lo :
          IF lo.err # NoErr THEN fail(lo.err)
          ELSE With(IF lo.next + 1 <= Len(s) /\ s[lo.next] = ReRunes.minus
                       /\ s[lo.next + 1] # ReRunes.rbrack
                    THEN parseClassChar(s, lo.next + 1, whole)
                    ELSE lo, LAMBDA hi :
            IF hi.err # NoErr THEN fail(hi.err)
            ELSE IF hi.r < lo.r
            THEN fail(<<ErrInvalidCharRange, SubSeq(s, t, hi.next - 1)>>)
            ELSE cont(hi.next,
                      IF "FoldCase" \notin flags
                      THEN appendRange(st.class, lo.r, hi.r)
                      ELSE appendFoldedRange(st.class, lo.r, hi.r)))))))

parseClassLoop(flags, s, whole, t, class, first) ==
  With(whileLoop(LAMBDA st : parseClassStep(flags, s, whole, st), LAMBDA st : st.brk,
                 [err |-> NoErr, class |-> class, next |-> t, first |-> first,
                  brk |-> FALSE]), LAMBDA st :
    [err |-> st.err, class |-> st.class, next |-> st.next])

(* parseClass: s[i] is the left bracket.                                   *)
parseClass(p, s, i) ==
  LET neg == i + 1 <= Len(s) /\ s[i + 1] = ReRunes.caret
      class0 == IF neg /\ "ClassNL" \notin p.flags THEN <<Runes.nl, Runes.nl>> ELSE <<>>
  IN With(parseClassLoop(p.flags, s, i, IF neg THEN i + 2 ELSE i + 1, class0, TRUE),
          LAMBDA lp :
       IF lp.err # NoErr THEN [err |-> lp.err, p |-> p, next |-> 0]
       ELSE With(cleanClass(lp.class), LAMBDA class :
              [err |-> NoErr,
               p |-> push(newRegexp(p, "OpCharClass").p,
                          setFlags([newRegexp(p, "OpCharClass").re EXCEPT
                                      !.Rune = IF neg THEN negateClass(class) ELSE class],
                                   p.flags)),
               next |-> lp.next]))

(* The literals of \Q...\E: the runes from t up to end.                    *)
literals(p, s, t, end) == forLoop(LAMBDA q, k : literal(q, s[k]), p, t, end)

(* The place of the first "\E" in s from i on, 0 if there is none.         *)
indexQuoteEnd(s, i) ==
  With(whileLoop(LAMBDA j : j + 1,
                 LAMBDA j : j + 1 > Len(s)
                            \/ (s[j] = SrcRunes.bslash /\ s[j + 1] = ReRunes.E), i),
       LAMBDA j : IF j + 1 > Len(s) THEN 0 ELSE j)

(* The case of the backslash in the loop of parse.                         *)
parseBackslash(p, s, i) ==
  LET perl == "PerlX" \in p.flags /\ i + 1 <= Len(s)
      c == IF i + 1 <= Len(s) THEN s[i + 1] ELSE -1
      done(q, t) == [err |-> NoErr, p |-> q, next |-> t]
      class == newRegexp(p, "OpCharClass")
  IN IF perl /\ c = ReRunes.A THEN done(parserOp(p, "OpBeginText"), i + 2)
     ELSE IF perl /\ c = Runes.b THEN done(parserOp(p, "OpWordBoundary"), i + 2)
     ELSE IF perl /\ c = ReRunes.B THEN done(parserOp(p, "OpNoWordBoundary"), i + 2)
     ELSE IF perl /\ c = ReRunes.C
     THEN [err |-> <<ErrInvalidEscape, SubSeq(s, i, i + 1)>>, p |-> p, next |-> 0]
     ELSE IF perl /\ c = ReRunes.Q
     THEN With(indexQuoteEnd(s, i + 2), LAMBDA k :
            IF k = 0 THEN done(literals(p, s, i + 2, Len(s)), Len(s) + 1)
            ELSE done(literals(p, s, i + 2, k - 1), k + 2))
     ELSE IF perl /\ c = ReRunes.z THEN done(parserOp(p, "OpEndText"), i + 2)
     ELSE With(parseUnicodeClass(p.flags, s, i, <<>>), LAMBDA uc :
       IF uc.err # NoErr THEN [err |-> uc.err, p |-> p, next |-> 0]
       ELSE IF uc.found
       THEN done(push(class.p, setFlags([class.re EXCEPT !.Rune = uc.class], p.flags)),
                 uc.next)
       ELSE With(parsePerlClassEscape(p.flags, s, i, <<>>), LAMBDA pc :
         IF pc.found
         THEN done(push(class.p, setFlags([class.re EXCEPT !.Rune = pc.class], p.flags)),
                   pc.next)
         ELSE With(parseEscape(s, i), LAMBDA esc :
                IF esc.err # NoErr THEN [err |-> esc.err, p |-> p, next |-> 0]
                ELSE done(literal(reuse(class.p, class.re), esc.r), esc.next))))

(* The case of the left brace in the loop of parse.                        *)
parseBrace(p, s, i, lastRepeat) ==
  With(parseRepeat(s, i), LAMBDA rp :
    IF ~rp.ok
    THEN [err |-> NoErr, p |-> literal(p, SrcRunes.lbrace), next |-> i + 1, repeat |-> 0]
    ELSE IF rp.min < 0 \/ rp.min > 1000 \/ rp.max > 1000 \/ (rp.max >= 0 /\ rp.min > rp.max)
    THEN [err |-> <<ErrInvalidRepeatSize, SubSeq(s, i, rp.next - 1)>>, p |-> p, next |-> 0,
          repeat |-> 0]
    ELSE With(repeat(p, s, "OpRepeat", rp.min, rp.max, i, rp.next, lastRepeat), LAMBDA res :
           [err |-> res.err, p |-> res.p, next |-> res.next, repeat |-> i]))

(* One pass of the loop of parse, at s[i]; repeat is the place of the      *)
(* repetition operator read, 0 if none was.                                *)
parseStepBody(p, s, i, lastRepeat) ==
  LET c == s[i]
      plain(res) == [err |-> res.err, p |-> res.p, next |-> res.next, repeat |-> 0]
      done(q) == [err |-> NoErr, p |-> q, next |-> i + 1, repeat |-> 0]
  IN IF c = ReRunes.lparen
     THEN IF "PerlX" \in p.flags /\ i + 1 <= Len(s) /\ s[i + 1] = ReRunes.quest
          THEN plain(parsePerlFlags(p, s, i))
          ELSE With(parserOp([p EXCEPT !.numCap = @ + 1], "opLeftParen"), LAMBDA q :
                 done([q EXCEPT !.stack[Len(q.stack)].Cap = q.numCap]))
     ELSE IF c = ReRunes.bar THEN done(parseVerticalBar(p))
     ELSE IF c = ReRunes.rparen
     THEN With(parseRightParen(p, s), LAMBDA res :
            [err |-> res.err, p |-> res.p, next |-> i + 1, repeat |-> 0])
     ELSE IF c = ReRunes.caret
     THEN done(parserOp(p, IF "OneLine" \in p.flags THEN "OpBeginText" ELSE "OpBeginLine"))
     ELSE IF c = ReRunes.dollar
     THEN IF "OneLine" \in p.flags
          THEN With(parserOp(p, "OpEndText"), LAMBDA q :
                 done([q EXCEPT !.stack[Len(q.stack)].Flags = @ \cup {"WasDollar"}]))
          ELSE done(parserOp(p, "OpEndLine"))
     ELSE IF c = ReRunes.dot
     THEN done(parserOp(p, IF "DotNL" \in p.flags THEN "OpAnyChar" ELSE "OpAnyCharNotNL"))
     ELSE IF c = ReRunes.lbrack THEN plain(parseClass(p, s, i))
     ELSE IF c \in {SrcRunes.star, ReRunes.plus, ReRunes.quest}
     THEN With(repeat(p, s, IF c = SrcRunes.star THEN "OpStar"
                            ELSE IF c = ReRunes.plus THEN "OpPlus" ELSE "OpQuest",
                      0, 0, i, i + 1, lastRepeat), LAMBDA res :
            [err |-> res.err, p |-> res.p, next |-> res.next, repeat |-> i])
     ELSE IF c = SrcRunes.lbrace THEN parseBrace(p, s, i, lastRepeat)
     ELSE IF c = SrcRunes.bslash THEN plain(parseBackslash(p, s, i))
     ELSE done(literal(p, c))

parserCall(method, args) ==
  CASE method = "checkLimits" -> checkLimitsBody(args[1])
    [] method = "push" -> pushBody(args[1], args[2])
    [] method = "literal" -> literalBody(args[1], args[2])
    [] method = "op" -> parserOpBody(args[1], args[2])
    [] method = "collapse" -> collapseBody(args[1], args[2], args[3])
    [] method = "concat" -> concatBody(args[1])
    [] method = "alternate" -> alternateBody(args[1])
    [] method = "closeAlternation" -> closeAlternationBody(args[1])
    [] method = "parseStep" -> parseStepBody(args[1], args[2], args[3], args[4])

(* The loop of parse; a panic of checkLimits in a step ends it with the    *)
(* error that the recover of parse returns.                                *)
parseLoop(p, s, i, lastRepeat) ==
  With(whileLoop(LAMBDA st : parseStep(st.p, s, st.next, st.repeat),
                 LAMBDA st : st.err # NoErr \/ st.p.panic # "" \/ st.next > Len(s),
                 [err |-> NoErr, p |-> p, next |-> i, repeat |-> lastRepeat]), LAMBDA st :
    [err |-> IF st.p.panic # "" THEN <<st.p.panic, s>> ELSE st.err, p |-> st.p])

(* syntax.Parse(regex, syntax.Perl): the error, or the regexp re.          *)
syntaxParse(regex) ==
  With(parseLoop([flags |-> Perl, stack |-> <<>>, numCap |-> 0, numRegexp |-> 0,
                  numRunes |-> 0, repeats |-> 0, sizeOn |-> FALSE, heightOn |-> FALSE,
                  free |-> <<>>, panic |-> ""], regex, 1, 0), LAMBDA lp :
    IF lp.err # NoErr THEN [err |-> lp.err, re |-> NilRegexp]
    ELSE With(closeAlternation(lp.p), LAMBDA q :
           IF q.panic # "" THEN [err |-> <<q.panic, regex>>, re |-> NilRegexp]
           ELSE IF Len(q.stack) # 1
           THEN [err |-> <<ErrMissingParen, regex>>, re |-> NilRegexp]
           ELSE [err |-> NoErr, re |-> plainRegexp(q.stack[1])]))

(* graph.BuildNfa on rules whose regexes are texts: the first regex that   *)
(* syntax.Parse rejects ends it with the error and no NFA.                 *)
parseRules(exprs, i, out) ==
  forLoop(LAMBDA st, k :
            IF st.err # NoErr THEN st
            ELSE With(syntaxParse(exprs[k].Regex), LAMBDA r :
                   IF r.err # NoErr THEN [err |-> r.err, rules |-> <<>>]
                   ELSE [st EXCEPT !.rules = Append(@, Rule(exprs[k].Id, r.re, <<>>))]),
          [err |-> NoErr, rules |-> out], i, Len(exprs))

BuildNfaOfTexts(exprs) ==
  With(parseRules(exprs, 1, <<>>), LAMBDA pr :
    IF pr.err # NoErr THEN [err |-> pr.err, nfa |-> <<>>]
    ELSE [err |-> NoErr, nfa |-> BuildNfa(pr.rules)])

(* parser.genGraphs: the NFA and the DFA of the children of x, then the    *)
(* same for every child in turn; the first error ends it, with what was    *)
(* filled in so far left in the tree.                                      *)
RECURSIVE genGraphs(_)
genGraphsKids(x, i) ==
  forLoop(LAMBDA st, j :
            IF st.err # NoErr THEN st
            ELSE With(genGraphs(st.node.Children[j]), LAMBDA k :
                   [err |-> k.err, node |-> [st.node EXCEPT !.Children[j] = k.node]]),
          [err |-> NoErr, node |-> x], i, Len(x.Children))

genGraphs(x) ==
  IF Len(x.Children) = 0 THEN [err |-> NoErr, node |-> x]
  ELSE With(BuildNfaOfTexts(x.Children), LAMBDA n :
         IF n.err # NoErr THEN [err |-> n.err, node |-> [x EXCEPT !.NFA = <<>>]]
         ELSE genGraphsKids([x EXCEPT !.NFA = n.nfa, !.DFA = BuildDfa(n.nfa)], 1))

(* The nil program ParseNex returns with a parse error.                    *)
NilProgram == [nil |-> TRUE]

IsNilProgram(x) == "nil" \in DOMAIN x

(* ParseNex: with a parse error, nil and the error; else the program with  *)
(* the graphs of its scopes and the error of genGraphs, if any.            *)
ParseNex(in) ==
  With(parseRoot(newParser(in)), LAMBDA res :
    IF res.p.err # NoErr THEN [err |-> res.p.err, program |-> NilProgram]
    ELSE With(genGraphs(res.node), LAMBDA g : [err |-> g.err, program |-> g.node]))

(* The sources of the runs: every text of at most MaxSrcLen runes of       *)
(* SrcAlphabet, every text of at most MaxFrags of the pieces SrcFrags (a   *)
(* rule with its code on one line, a rule with its code on two lines, a    *)
(* rule that opens a scope, the end of a scope, the end of the rules), the *)
(* sources with a star, the sources of the rules of TestCornerCases and    *)
(* the sources with runes above 127 and Unicode classes.                   *)
MaxSrcLen == 5

MaxFrags == 5

SrcAlphabet == {SrcRunes.slash, SrcRunes.under, SrcRunes.bslash, Runes.a, Runes.nl}

SrcFrags ==
  {<<SrcRunes.slash, Runes.a, SrcRunes.slash, SrcRunes.x, Runes.nl>>,
   <<SrcRunes.under, Runes.b, SrcRunes.under, SrcRunes.lbrace, Runes.nl, SrcRunes.rbrace, Runes.nl>>,
   <<SrcRunes.slash, Runes.a, SrcRunes.slash, SrcRunes.lt, SrcRunes.x, Runes.nl>>,
   <<SrcRunes.gt, SrcRunes.x, Runes.nl>>,
   <<SrcRunes.slash, SrcRunes.slash, Runes.nl>>}

(* Sources with a star in a regex: a regex syntax.Parse takes, and regexes *)
(* it rejects, in the rules of the root and in a nested scope.             *)
StarFrags ==
  {<<SrcRunes.slash, Runes.a, Runes.b, SrcRunes.star, Runes.a, SrcRunes.slash, SrcRunes.x, Runes.nl>>,
   <<SrcRunes.slash, SrcRunes.star, SrcRunes.slash, SrcRunes.x, Runes.nl>>,
   <<SrcRunes.slash, Runes.a, SrcRunes.star, SrcRunes.star, SrcRunes.slash, SrcRunes.x, Runes.nl>>}

StarSources ==
  {f \o <<SrcRunes.slash, SrcRunes.slash, Runes.nl>> : f \in StarFrags}
  \cup {<<SrcRunes.slash, Runes.a, SrcRunes.slash, SrcRunes.lt, SrcRunes.x, Runes.nl>> \o f
          \o <<SrcRunes.gt, SrcRunes.x, Runes.nl, SrcRunes.slash, SrcRunes.slash, Runes.nl>> :
        f \in StarFrags}

(* The rules of the fourteen programs of TestCornerCases, in the order of  *)
(* the test: every rule with its delimiter, its regex and its nesting, the *)
(* code of every rule and scope cut down to x, and the user code to        *)
(* nothing.  The regexes hold the anchors, the word boundary, the groups,  *)
(* the classes, the repeats, the flag (?i), the Perl classes and escaped   *)
(* delimiters.                                                             *)
TestSources ==
  {<<47, 91, 97, 45, 122, 93, 42, 47, 60, 120, 10, 47, 97, 40, 40, 36, 42,
     124, 36, 36, 41, 40, 36, 40, 36, 41, 36, 36, 36, 41, 41, 36, 40, 36,
     36, 36, 41, 42, 47, 120, 10, 47, 40, 101, 36, 124, 102, 36, 41, 47,
     120, 10, 47, 40, 113, 117, 120, 41, 42, 47, 120, 10, 47, 46, 36, 47,
     120, 10, 62, 120, 10, 47, 47, 10>>,
   <<47, 91, 97, 45, 122, 93, 42, 47, 60, 120, 10, 47, 40, 40, 94, 42, 124,
     94, 94, 41, 40, 94, 40, 94, 41, 94, 94, 94, 41, 41, 94, 40, 94, 94, 94,
     41, 42, 98, 97, 114, 47, 120, 10, 47, 40, 94, 102, 111, 111, 41, 42,
     47, 120, 10, 47, 94, 102, 111, 111, 111, 36, 47, 120, 10, 47, 94, 102,
     40, 111, 111, 41, 42, 47, 120, 10, 47, 94, 102, 111, 111, 42, 47, 120,
     10, 47, 94, 47, 120, 10, 62, 120, 10, 47, 47, 10>>,
   <<47, 91, 97, 45, 122, 44, 93, 42, 47, 60, 120, 10, 47, 40, 40, 92, 98,
     42, 124, 92, 98, 92, 98, 41, 40, 92, 98, 40, 92, 98, 41, 92, 98, 92,
     98, 92, 98, 41, 41, 92, 98, 40, 92, 98, 92, 98, 92, 98, 41, 42, 98, 97,
     114, 92, 98, 47, 120, 10, 47, 40, 92, 98, 102, 111, 111, 92, 98, 41,
     42, 47, 120, 10, 47, 92, 98, 102, 111, 111, 111, 92, 98, 36, 47, 120,
     10, 47, 92, 98, 102, 40, 111, 111, 41, 42, 92, 98, 47, 120, 10, 47, 92,
     98, 102, 111, 111, 42, 92, 98, 47, 120, 10, 47, 92, 98, 47, 120, 10,
     62, 120, 10, 47, 47, 10>>,
   <<47, 94, 47, 120, 10, 47, 36, 47, 120, 10, 47, 47, 10>>,
   <<47, 36, 47, 120, 10, 47, 94, 47, 120, 10, 47, 47, 10>>,
   <<47, 94, 36, 47, 120, 10, 47, 94, 47, 120, 10, 47, 36, 47, 120, 10, 47,
     47, 10>>,
   <<47, 92, 42, 47, 120, 10, 47, 47, 10>>,
   <<60, 120, 10, 47, 91, 48, 45, 57, 93, 42, 47, 120, 10, 47, 59, 47, 120,
     10, 47, 46, 47, 120, 10, 62, 120, 10, 47, 47, 10>>,
   <<47, 97, 98, 99, 100, 47, 120, 10, 47, 92, 110, 47, 120, 10, 47, 47, 10>>,
   <<47, 97, 91, 98, 99, 100, 93, 42, 101, 47, 60, 120, 10, 47, 97, 47, 120,
     10, 47, 98, 99, 100, 47, 60, 120, 10, 47, 99, 47, 120, 10, 62, 120, 10,
     47, 101, 47, 120, 10, 47, 99, 99, 99, 47, 60, 120, 10, 47, 46, 47, 120,
     10, 62, 120, 10, 62, 120, 10, 47, 92, 110, 47, 120, 10, 47, 46, 47,
     120, 10, 47, 47, 10>>,
   <<47, 91, 97, 45, 122, 45, 93, 42, 47, 60, 120, 10, 47, 91, 94, 45, 97,
     45, 100, 102, 45, 109, 93, 47, 120, 10, 47, 46, 47, 120, 10, 62, 120,
     10, 47, 92, 110, 47, 120, 10, 47, 46, 47, 120, 10, 47, 47, 10>>,
   <<47, 91, 97, 45, 101, 93, 43, 91, 100, 45, 104, 93, 43, 47, 120, 10, 47,
     91, 109, 45, 110, 93, 43, 91, 107, 45, 112, 93, 43, 91, 94, 107, 45,
     114, 93, 43, 91, 111, 45, 112, 93, 43, 47, 120, 10, 47, 46, 47, 120,
     10, 47, 47, 10>>,
   <<47, 92, 115, 42, 47, 120, 10, 47, 40, 63, 105, 41, 97, 123, 50, 44, 53,
     125, 47, 120, 10, 47, 40, 63, 105, 41, 98, 123, 51, 125, 47, 120, 10,
     47, 40, 63, 105, 41, 99, 123, 51, 44, 125, 47, 120, 10, 47, 40, 63,
     105, 41, 100, 43, 47, 120, 10, 47, 40, 63, 105, 41, 40, 101, 102, 103,
     124, 101, 41, 47, 120, 10, 47, 92, 119, 43, 47, 120, 10, 47, 47, 10>>,
   <<47, 97, 92, 47, 47, 120, 10, 95, 98, 92, 95, 95, 120, 10, 34, 92, 115,
     43, 34, 120, 10, 39, 46, 39, 120, 10, 47, 47, 10>>}

(* Sources with runes above 127 and with the classes of the Unicode        *)
(* tables: the rules of the README's program of the Chinese and the        *)
(* Eastern Arabic numerals (a class of thirteen runes, the range of the    *)
(* digits), a script and a category (\p{Greek}+, \pZ), a negated script    *)
(* with a nested rule that folds a rune of an orbit of three               *)
(* (\P{Braille}, (?i) with U+01C6), the letters and their complement       *)
(* (\pL, \PL), and a table syntax.Parse does not know (\p{Foo}).           *)
UnicodeSources ==
  {<<47, 91, 38646, 19968, 20108, 19977, 22235, 20116, 20845, 19971,
     20843, 20061, 21313, 30334, 21315, 93, 43, 47, 120, 10, 47, 91, 1632,
     45, 1641, 93, 47, 120, 10, 47, 46, 47, 120, 10, 47, 47, 10>>,
   <<47, 92, 112, 123, 71, 114, 101, 101, 107, 125, 43, 47, 120, 10, 47,
     92, 112, 90, 47, 120, 10, 47, 47, 10>>,
   <<47, 92, 80, 123, 66, 114, 97, 105, 108, 108, 101, 125, 47, 60, 120,
     10, 47, 40, 63, 105, 41, 454, 47, 120, 10, 62, 120, 10, 47, 47, 10>>,
   <<47, 92, 112, 76, 47, 120, 10, 47, 92, 80, 76, 47, 120, 10, 47, 47,
     10>>,
   <<47, 97, 47, 120, 10, 47, 92, 112, 123, 70, 111, 111, 125, 47, 120,
     10, 47, 47, 10>>}

Sources ==
  SeqsUpTo(SrcAlphabet, MaxSrcLen) \cup {Flatten(fs) : fs \in SeqsUpTo(SrcFrags, MaxFrags)}
  \cup StarSources \cup TestSources \cup UnicodeSources

InitParse ==
  /\ psr \in {[phase |-> "src", in |-> s] : s \in Sources}
  /\ bld = NoBuild
  /\ lex = NoLex
  /\ ver = 0 /\ prog = 0 /\ programDfa = <<>> /\ input = <<>>
  /\ stk = <<>> /\ rpc = "done" /\ cancelled = FALSE /\ chStop = 0 /\ closed = FALSE
  /\ cpc = "done" /\ curFrame = NoFrame /\ lstack = <<>> /\ lvl = 0
  /\ sent = <<>> /\ pieces = <<>> /\ acts = <<>>

ParseRest ==
  UNCHANGED <<ver, prog, bld, lex, input, programDfa, stk, rpc, cancelled, chStop, closed, cpc,
              curFrame, lstack, lvl, sent, pieces, acts>>

(* parseRoot on a new parser, as ParseNex calls it: the parser it leaves,   *)
(* the tree, and the calls of readRegex it made.                           *)
ParseRoot ==
  /\ psr.phase = "src"
  /\ \E res \in {parseRoot(newParser(psr.in))} :
       psr' = [phase |-> "parsed", in |-> psr.in, p |-> res.p, node |-> res.node,
               reads |-> res.reads]
  /\ ParseRest

(* ParseNex on the whole source.                                           *)
ParseSource ==
  /\ psr.phase \in {"src", "parsed"}
  /\ \E res \in {ParseNex(psr.in)} :
       psr' = [phase |-> "done", in |-> psr.in, err |-> res.err, program |-> res.program]
  /\ ParseRest

NextParse == ParseRoot \/ ParseSource

SpecParse == InitParse /\ [][NextParse]_vars

----------------------------------------------------------------------------
(* The runtime with the stop channel (package nex, ver 10).  It runs the   *)
(* DFAs of a scope, one for every rule, side by side over the buffer.  A   *)
(* dfa is a record: acc the accepting states, f the rune transition of     *)
(* every state, startf and endf the transitions at the start and the end   *)
(* of the input, nest the DFAs of the nested scope.  A frame carries the   *)
(* index i of the rule's DFA in its scope and the text s.                  *)

Alphabet10 == {Runes.a, Runes.b}

NoMap == [st \in {} |-> 0]

NoStep == [r \in Alphabet10 |-> -1]

OnRune(r, dst) == [x \in Alphabet10 |-> IF x = r THEN dst ELSE -1]

Dfa10(acc, f, startf, endf, nest) ==
  [acc |-> acc, f |-> f, startf |-> startf, endf |-> endf, nest |-> nest]

(* The tables of /a/, /b/, /a/ < /a/ >, /a+/ < /a/ < /a/ > /b/ >, /^a/ and *)
(* /b$/, and the two lexers built of them.                                 *)
DfaA == Dfa10({1}, <<OnRune(Runes.a, 1), NoStep>>, NoMap, NoMap, <<>>)

DfaB == Dfa10({1}, <<OnRune(Runes.b, 1), NoStep>>, NoMap, NoMap, <<>>)

DfaANest == Dfa10({1}, <<OnRune(Runes.a, 1), NoStep>>, NoMap, NoMap, <<DfaA>>)

DfaAPlusNest ==
  Dfa10({1}, <<OnRune(Runes.a, 1), OnRune(Runes.a, 1)>>, NoMap, NoMap, <<DfaANest, DfaB>>)

DfaStartA == Dfa10({2}, <<NoStep, OnRune(Runes.a, 2), NoStep>>, [st \in {0} |-> 1], NoMap, <<>>)

DfaBEnd == Dfa10({2}, <<OnRune(Runes.b, 1), NoStep, NoStep>>, NoMap, [st \in {1} |-> 2], <<>>)

Families10 == <<(<<DfaAPlusNest, DfaB>>), (<<DfaStartA, DfaBEnd, DfaA>>)>>

dfaStates(p) == Families10[p]

NewScanner10(family, in, line, column) ==
  [family |-> family, in |-> in, line |-> line, column |-> column,
   matchDfaIndex |-> 0, matchBufferPos |-> 0, bufferPos |-> 0,
   states |-> <<>>, buf |-> <<>>, atEOF |-> FALSE, stopped |-> FALSE, text |-> <<>>,
   pc |-> "begin"]

State10(i, st) == [dfaIndex |-> i, stateIndex |-> st]

Accepts10(s, dfaIndex, st) ==
  /\ st \in s.family[dfaIndex + 1].acc
  /\ (s.matchBufferPos < s.bufferPos \/ dfaIndex < s.matchDfaIndex)

checkAccept10(s, dfaIndex, st) ==
  IF Accepts10(s, dfaIndex, st)
  THEN [s EXCEPT !.matchDfaIndex = dfaIndex, !.matchBufferPos = s.bufferPos]
  ELSE s

lcUpdate(s, r) ==
  IF r = Runes.nl THEN [s EXCEPT !.line = @ + 1, !.column = 0]
  ELSE [s EXCEPT !.column = @ + 1]

RECURSIVE lcUpdateAll(_, _)
lcUpdateAll(s, rs) == IF rs = <<>> THEN s ELSE lcUpdateAll(lcUpdate(s, Head(rs)), Tail(rs))

(* scan, the start states of DFA i: state 0 and what the ^ transitions     *)
(* lead to.                                                                *)
RECURSIVE followStart(_, _, _, _)
followStart(s, i, st, mark) ==
  LET s1 == [s EXCEPT !.states = Append(@, State10(i, st))]
      m == s.family[i + 1].startf
      ok == st \in DOMAIN m
      nx == IF ok THEN m[st] ELSE 0
  IN IF ~ok \/ nx = -1 \/ nx \in (mark \cup {st}) THEN s1
     ELSE followStart(checkAccept10(s1, i, nx), i, nx, mark \cup {st})

RECURSIVE startStates(_, _)
startStates(s, i) ==
  IF i >= Len(s.family) THEN s ELSE startStates(followStart(s, i, 0, {}), i + 1)

scanBegin(s) ==
  startStates([s EXCEPT !.matchDfaIndex = 0, !.matchBufferPos = -1, !.bufferPos = 0,
                        !.states = <<>>], 0)

(* scan, the read of a rune when the buffer is used up.                    *)
readRune10(s) ==
  IF Len(s.buf) = s.bufferPos /\ ~s.atEOF
  THEN IF s.in = <<>> THEN [s EXCEPT !.atEOF = TRUE]
       ELSE [s EXCEPT !.buf = Append(@, Head(s.in)), !.in = Tail(@)]
  ELSE s

(* scan, every DFA takes rune r; the DFAs that are stuck are dropped.      *)
RECURSIVE stepStates(_, _, _)
stepStates(s, xs, r) ==
  IF xs = <<>> THEN s
  ELSE LET x == Head(xs)
           n == s.family[x.dfaIndex + 1].f[x.stateIndex + 1][r]
       IN IF n = -1 THEN stepStates(s, Tail(xs), r)
          ELSE stepStates(checkAccept10([s EXCEPT !.states = Append(@, State10(x.dfaIndex, n))],
                                        x.dfaIndex, n), Tail(xs), r)

(* scan, the $ transitions of one DFA at the end of the input; hit says    *)
(* that a match was taken.                                                 *)
RECURSIVE followEnd(_, _, _)
followEnd(s, x, mark) ==
  LET m == s.family[x.dfaIndex + 1].endf
      ok == x.stateIndex \in DOMAIN m
      nx == IF ok THEN m[x.stateIndex] ELSE 0
  IN IF ~ok \/ nx = -1 \/ nx \in (mark \cup {x.stateIndex}) THEN [s |-> s, hit |-> FALSE]
     ELSE IF Accepts10(s, x.dfaIndex, nx)
          THEN [s |-> checkAccept10(s, x.dfaIndex, nx), hit |-> TRUE]
          ELSE followEnd(s, [x EXCEPT !.stateIndex = nx], mark \cup {x.stateIndex})

RECURSIVE dollar(_, _)
dollar(s, xs) ==
  IF xs = <<>> THEN s
  ELSE LET r == followEnd(s, Head(xs), {})
       IN IF r.hit THEN r.s ELSE dollar(r.s, Tail(xs))

(* scan, one pass of the loop up to the test of states == nil.             *)
scanStep10(s) ==
  LET s1 == readRune10(s)
  IN IF ~s1.atEOF
     THEN stepStates([s1 EXCEPT !.bufferPos = @ + 1, !.states = <<>>], s1.states,
                     s1.buf[s1.bufferPos + 1])
     ELSE [dollar(s1, s1.states) EXCEPT !.states = <<>>]

(* scan, all DFAs start again at state 0.                                  *)
restartStates(s) ==
  [s EXCEPT !.bufferPos = 0, !.states = [i \in 1..Len(s.family) |-> State10(i - 1, 0)]]

(* The goroutine of ver 10 and its caller.  pc of a scanner: "begin",      *)
(* "step" (the loop), "nil" (states == nil), "select" (the send of a match *)
(* or the receive of the stop token), "nested", "back" (after the nested   *)
(* scan), "last" (the send of the frame of index -1).                      *)

Frame10(i, s, line, column) == [i |-> i, s |-> s, line |-> line, column |-> column]

Init10 ==
  /\ ver = 10
  /\ prog \in DOMAIN Families10
  /\ programDfa = <<>>
  /\ input \in SeqsUpTo(Alphabet10, MaxLen)
  /\ stk = <<NewScanner10(dfaStates(prog), input, 0, 0)>>
  /\ rpc = "scan"
  /\ cancelled = FALSE
  /\ chStop = 0
  /\ closed = FALSE
  /\ cpc = "user"
  /\ lex = NoLex
  /\ curFrame = NoFrame
  /\ bld = NoBuild
  /\ psr = NoParse
  /\ lstack = <<>>
  /\ lvl = 0
  /\ sent = <<>>
  /\ pieces = <<>>
  /\ acts = <<>>

Scan10Begin ==
  /\ stk # <<>> /\ Top.pc = "begin"
  /\ stk' = SetTop([scanBegin(Top) EXCEPT !.pc = "step"])
  /\ UNCHANGED <<ver, prog, bld, psr, lex, chStop, input, programDfa, rpc, cancelled, closed, cpc, curFrame,
                 lstack, lvl, sent, pieces, acts>>

Scan10Step ==
  /\ stk # <<>> /\ Top.pc = "step"
  /\ LET s == scanStep10(Top)
     IN stk' = SetTop([s EXCEPT !.pc = IF s.states = <<>> THEN "nil" ELSE "step"])
  /\ UNCHANGED <<ver, prog, bld, psr, lex, chStop, input, programDfa, rpc, cancelled, closed, cpc, curFrame,
                 lstack, lvl, sent, pieces, acts>>

(* scan, all DFAs are stuck: no match (the scan ends, or one rune is       *)
(* dropped), or a match to send.                                           *)
Scan10Stuck ==
  /\ stk # <<>> /\ Top.pc = "nil"
  /\ IF Top.matchBufferPos = -1
     THEN IF Top.buf = <<>>
          THEN stk' = SetTop([Top EXCEPT !.pc = "last"])
          ELSE stk' = SetTop([restartStates([lcUpdate(Top, Top.buf[1]) EXCEPT !.buf = Tail(@)])
                                EXCEPT !.pc = "step"])
     ELSE stk' = SetTop([Top EXCEPT !.text = SubSeq(Top.buf, 1, Top.matchBufferPos),
                                    !.buf = SubSeq(@, Top.matchBufferPos + 1, Len(@)),
                                    !.matchBufferPos = -1,
                                    !.pc = "select"])
  /\ UNCHANGED <<ver, prog, bld, psr, lex, chStop, input, programDfa, rpc, cancelled, closed, cpc, curFrame,
                 lstack, lvl, sent, pieces, acts>>

(* The DFAs of the scope whose loop the caller is in at level l.           *)
RECURSIVE CallerFamily10(_)
CallerFamily10(l) ==
  IF l = 0 THEN dfaStates(prog) ELSE CallerFamily10(l - 1)[lstack[l].i + 1].nest

(* next(lvl) stores the frame taken from the channel; the switch of Lex    *)
(* runs the rule's code and enters the loop of a nested scope, or leaves   *)
(* the loop and pops.                                                      *)
Receive10(f) ==
  IF f.i >= 0 /\ f.i < Len(CallerFamily10(lvl))
  THEN /\ lstack' = [lstack EXCEPT ![lvl + 1] = f]
       /\ lvl' = IF CallerFamily10(lvl)[f.i + 1].nest # <<>> THEN lvl + 1 ELSE lvl
       /\ cpc' = "user"
       /\ acts' = Append(acts, f)
  ELSE /\ lstack' = SubSeq(lstack, 1, lvl)
       /\ lvl' = IF lvl = 0 THEN 0 ELSE lvl - 1
       /\ cpc' = IF lvl = 0 THEN "done" ELSE "user"
       /\ acts' = acts

FrameToSend10 ==
  IF Top.pc = "last" THEN Frame10(-1, <<>>, Top.line, Top.column)
  ELSE Frame10(Top.matchDfaIndex, Top.text, Top.line, Top.column)

(* scan returns after its last send: to the scan that called it, or the    *)
(* goroutine ends.                                                         *)
Scan10Return ==
  IF Len(stk) = 1 THEN stk' = <<>> /\ rpc' = "done"
  ELSE stk' = SubSeq(stk, 1, Len(stk) - 1) /\ rpc' = rpc

(* The send of a frame on ch; the caller takes it.                         *)
Scan10Send ==
  /\ stk # <<>> /\ Top.pc \in {"select", "last"}
  /\ cpc = "recv"
  /\ IF Top.pc = "last" THEN Scan10Return
     ELSE stk' = SetTop([Top EXCEPT !.pc = "nested"]) /\ rpc' = rpc
  /\ Receive10(FrameToSend10)
  /\ sent' = Append(sent, [frame |-> FrameToSend10, depth |-> Len(stk)])
  /\ UNCHANGED <<ver, prog, bld, psr, lex, chStop, input, programDfa, cancelled, closed, curFrame, pieces>>

(* The other case of the select: the stop token is taken; scan leaves the  *)
(* loop.                                                                   *)
Scan10StopRecv ==
  /\ stk # <<>> /\ Top.pc = "select"
  /\ chStop = 1
  /\ chStop' = 0
  /\ stk' = SetTop([Top EXCEPT !.stopped = TRUE, !.pc = "last"])
  /\ UNCHANGED <<ver, prog, bld, psr, lex, input, programDfa, rpc, cancelled, closed, cpc, curFrame,
                 lstack, lvl, sent, pieces, acts>>

Scan10Nest ==
  /\ stk # <<>> /\ Top.pc = "nested"
  /\ LET nested == Top.family[Top.matchDfaIndex + 1].nest
     IN IF Len(nested) > 0
        THEN stk' = Append(SetTop([Top EXCEPT !.pc = "back"]),
                           NewScanner10(nested, Top.text, Top.line, Top.column))
        ELSE stk' = SetTop([Top EXCEPT !.pc = "back"])
  /\ UNCHANGED <<ver, prog, bld, psr, lex, chStop, input, programDfa, rpc, cancelled, closed, cpc, curFrame,
                 lstack, lvl, sent, pieces, acts>>

Scan10Back ==
  /\ stk # <<>> /\ Top.pc = "back"
  /\ IF Top.atEOF
     THEN stk' = SetTop([Top EXCEPT !.pc = "last"])
     ELSE stk' = SetTop([restartStates(lcUpdateAll(Top, Top.text)) EXCEPT !.pc = "step"])
  /\ UNCHANGED <<ver, prog, bld, psr, lex, chStop, input, programDfa, rpc, cancelled, closed, cpc, curFrame,
                 lstack, lvl, sent, pieces, acts>>

CallNext10 ==
  /\ cpc = "user"
  /\ cpc' = "recv"
  /\ lstack' = IF lvl = Len(lstack)
               THEN Append(lstack, Frame10(0, <<>>,
                                           IF lvl > 0 THEN lstack[lvl].line ELSE 0,
                                           IF lvl > 0 THEN lstack[lvl].column ELSE 0))
               ELSE lstack
  /\ UNCHANGED <<ver, prog, bld, psr, lex, chStop, input, programDfa, stk, rpc, cancelled, closed, curFrame,
                 lvl, sent, pieces, acts>>

(* Stop puts a token in the stop channel, which holds one: it completes    *)
(* whenever the channel has room, also after the token of an earlier Stop  *)
(* has been taken.                                                         *)
Stop10 ==
  /\ chStop = 0
  /\ chStop' = 1
  /\ cancelled' = TRUE
  /\ UNCHANGED <<ver, prog, bld, psr, lex, input, programDfa, stk, rpc, closed, cpc, curFrame, lstack, lvl,
                 sent, pieces, acts>>

(* The steps the scanner goroutine takes without the caller.               *)
ScannerStep10 ==
  Scan10Begin \/ Scan10Step \/ Scan10Stuck \/ Scan10StopRecv \/ Scan10Nest \/ Scan10Back

Next10 ==
  \/ Scan10Begin
  \/ Scan10Step
  \/ Scan10Stuck
  \/ Scan10Send
  \/ Scan10StopRecv
  \/ Scan10Nest
  \/ Scan10Back
  \/ CallNext10
  \/ Stop10

Spec10 == Init10 /\ [][Next10]_vars

(* The goroutine is scheduled; nothing is assumed of the caller.           *)
FairSpec10 == Spec10 /\ WF_vars(ScannerStep10)

----------------------------------------------------------------------------
(* What a regex matches, read off the syntax tree: the positions where a   *)
(* match of re that starts at position i of w (0-based, between runes) can *)
(* end, each with a flag telling whether the match went through an         *)
(* assertion. This is the yardstick the scanner is held against; nothing   *)
(* of the automata is used here.                                           *)

RefIsWord(r) ==
  (r >= 97 /\ r <= 122) \/ (r >= 65 /\ r <= 90) \/ (r >= 48 /\ r <= 57) \/ r = 95

RefRuneAt(w, i) == IF i >= 1 /\ i <= Len(w) THEN w[i] ELSE 0

RefAssertHolds(op, w, i) ==
  CASE op = "OpBeginText" -> i = 0
    [] op = "OpEndText" -> i = Len(w)
    [] op = "OpBeginLine" -> i = 0 \/ RefRuneAt(w, i) = Runes.nl
    [] op = "OpEndLine" -> i = Len(w) \/ RefRuneAt(w, i + 1) = Runes.nl
    [] op = "OpWordBoundary" -> RefIsWord(RefRuneAt(w, i)) # RefIsWord(RefRuneAt(w, i + 1))
    [] op = "OpNoWordBoundary" -> RefIsWord(RefRuneAt(w, i)) = RefIsWord(RefRuneAt(w, i + 1))

RefFold(r) == IF r >= 65 /\ r <= 90 THEN r + 32 ELSE r

RefLiteral(re, w, i) ==
  LET n == Len(re.Rune)
      same(a, b) == IF re.Fold THEN RefFold(a) = RefFold(b) ELSE a = b
  IN IF i + n <= Len(w) /\ \A k \in 1..n : same(w[i + k], re.Rune[k])
     THEN {<<i + n, FALSE>>} ELSE {}

RECURSIVE RefEnds(_, _, _)
RECURSIVE RefSeq(_, _, _, _)
RECURSIVE RefStar(_, _, _)
RECURSIVE RefUpTo(_, _, _, _)

(* The ends of x x ... x (k times) started from the ends in S.             *)
RefThen(x, w, S) ==
  UNION {{<<e[1], s[2] \/ e[2]>> : e \in RefEnds(x, w, s[1])} : s \in S}

RefSeq(subs, w, S, k) ==
  IF k > Len(subs) THEN S ELSE RefSeq(subs, w, RefThen(subs[k], w, S), k + 1)

RefStar(x, w, S) ==
  LET T == S \cup RefThen(x, w, S)
  IN IF T = S THEN S ELSE RefStar(x, w, T)

RefUpTo(x, w, S, k) ==
  IF k = 0 THEN S ELSE S \cup RefUpTo(x, w, RefThen(x, w, S), k - 1)

RefEnds(re, w, i) ==
  LET x == re.Sub[1]
      copies(n) == [k \in 1..n |-> x]
  IN CASE re.Op = "OpEmptyMatch" -> {<<i, FALSE>>}
       [] re.Op = "OpLiteral" -> RefLiteral(re, w, i)
       [] re.Op = "OpCharClass" ->
            IF i < Len(w) /\ inClass(re.Rune, w[i + 1]) THEN {<<i + 1, FALSE>>} ELSE {}
       [] re.Op = "OpAnyCharNotNL" ->
            IF i < Len(w) /\ w[i + 1] # Runes.nl THEN {<<i + 1, FALSE>>} ELSE {}
       [] IsAssertOp(re.Op) ->
            IF RefAssertHolds(re.Op, w, i) THEN {<<i, TRUE>>} ELSE {}
       [] re.Op = "OpCapture" -> RefEnds(x, w, i)
       [] re.Op = "OpConcat" -> RefSeq(re.Sub, w, {<<i, FALSE>>}, 1)
       [] re.Op = "OpAlternate" ->
            UNION {RefEnds(re.Sub[k], w, i) : k \in 1..Len(re.Sub)}
       [] re.Op = "OpStar" -> RefStar(x, w, {<<i, FALSE>>})
       [] re.Op = "OpPlus" -> RefStar(x, w, RefEnds(x, w, i))
       [] re.Op = "OpQuest" -> {<<i, FALSE>>} \cup RefEnds(x, w, i)
       [] re.Op = "OpRepeat" ->
            LET least == RefSeq(copies(re.Min), w, {<<i, FALSE>>}, 1)
            IN IF re.Max = -1 THEN RefStar(x, w, least)
               ELSE RefUpTo(x, w, least, re.Max - re.Min)

(* A regex holds an assertion somewhere.                                   *)
RECURSIVE RefAnchored(_)
RefAnchored(re) ==
  IsAssertOp(re.Op) \/ \E k \in 1..Len(re.Sub) : RefAnchored(re.Sub[k])

(* The matches the rules of a scope have at cursor c of w: <<id, length>>. *)
(* A match of length 0 counts only if it went through an assertion, and    *)
(* after a match of length 0 at this cursor (least = 1) only longer ones   *)
(* count.                                                                  *)
RefMatches(rules, w, c, least) ==
  UNION {{<<rules[k].Id, e[1] - c>> :
            e \in {f \in RefEnds(rules[k].Regex, w, c) :
                     (f[1] > c \/ f[2]) /\ f[1] - c >= least}} :
         k \in 1..Len(rules)}

Better(m, n) == m[2] > n[2] \/ (m[2] = n[2] /\ m[1] <= n[1])

RefBest(M) == CHOOSE m \in M : \A n \in M : Better(m, n)

----------------------------------------------------------------------------
(* The scope a scanner at depth d scans with, the matches its rules have   *)
(* at its cursor, and the start frames sent so far.                        *)

ScopeRules(d) == RuleById(prog, stk[d].dfa).Children

MatchesHere(d) == RefMatches(ScopeRules(d), ScannerInput(d), Cursor(d), stk[d].minCapture)

Chosen(d) == <<stk[d].matchAccept, stk[d].matchPos>>

(* The frames sent for a match: in ver 11 its start frame.                 *)
IsMatchFrame(e) ==
  e.depth >= 1 /\ e.frame.state > 0 /\ (ver = 11 => e.frame.kind = kStartCode)

StartFrames == SelectSeq(sent, IsMatchFrame)

RuleOfFrame(e) == RuleById(prog, e.frame.state)

(* C1: whenever a scanner has settled on a match, that match is the        *)
(* longest one the rules of its scope have at the cursor, and among the    *)
(* rules with a match of that length the one with the lowest id.           *)
C1_LongestMatchLowestId ==
  \A d \in 1..Len(stk) :
    stk[d].pc = "start" =>
      /\ MatchesHere(d) # {}
      /\ Chosen(d) = RefBest(MatchesHere(d))

(* C2: every frame sent for a rule whose regex holds no assertion has a    *)
(* non-empty text, and /(foo)*/ on "foofoo" sends one match, "foofoo".     *)
C2_NoEmptyMatchUnanchored ==
  /\ \A k \in 1..Len(sent) :
       (IsMatchFrame(sent[k]) /\ ~RefAnchored(RuleOfFrame(sent[k]).Regex))
         => sent[k].frame.text # <<>>
  /\ (prog = 1 /\ input = FooFoo /\ ~cancelled /\ rpc \in {"rootEnd", "done"})
       => (Len(StartFrames) = 1 /\ StartFrames[1].frame.text = FooFoo)


(* The frames of sent that the scanner now at depth d has sent itself.     *)
OwnFrames(d) ==
  {k \in 1..Len(sent) : sent[k].depth = d /\ \A m \in k..Len(sent) : sent[m].depth >= d}

LastOwn(d) == CHOOSE k \in OwnFrames(d) : \A m \in OwnFrames(d) : m <= k

(* C3: one scanner sends at most one match of length 0 at a cursor: of two *)
(* match frames of one scanner at the same offset at most one is empty;    *)
(* and a scanner that stands at the cursor of its last frame, an empty     *)
(* match, has minCapture 1 and settles on no second empty match there.     *)
C3_OneEmptyMatchPerCursor ==
  /\ \A k, l \in 1..Len(sent) :
       (/\ k < l
        /\ IsMatchFrame(sent[k]) /\ IsMatchFrame(sent[l])
        /\ sent[k].depth = sent[l].depth
        /\ sent[k].off = sent[l].off
        /\ \A m \in k..l : sent[m].depth >= sent[k].depth)
         => ~(sent[k].frame.text = <<>> /\ sent[l].frame.text = <<>>)
  /\ \A d \in 1..Len(stk) :
       (/\ stk[d].pc \in {"loop", "inner", "stuck", "start"}
        /\ OwnFrames(d) # {}
        /\ sent[LastOwn(d)].frame.state > 0
        /\ sent[LastOwn(d)].frame.text = <<>>
        /\ sent[LastOwn(d)].off = SumCursor(d))
         => /\ stk[d].minCapture = 1
            /\ stk[d].pc = "start" => stk[d].matchPos >= 1

(* C3, its case: after an empty match a scanner finds an empty match again *)
(* at the same cursor and has to refuse it.                                *)
C3_Witness ==
  \E d \in 1..Len(stk) :
    /\ stk[d].pc = "stuck" /\ stk[d].minCapture = 1 /\ stk[d].matchPos = 0
    /\ OwnFrames(d) # {} /\ sent[LastOwn(d)].frame.text = <<>>
    /\ sent[LastOwn(d)].off = SumCursor(d)

(* The rule actions the caller has run, by rule id, in order.              *)
IsAction(f) == f.state > 0 /\ (ver = 11 => f.kind = kStartCode)

RECURSIVE IdsOf(_)
IdsOf(fs) == IF fs = <<>> THEN <<>> ELSE <<Head(fs).state>> \o IdsOf(Tail(fs))

ActionsRun == IdsOf(SelectSeq(acts, IsAction))

LastSentIsEndOf(st) ==
  sent[Len(sent)].frame.kind = kEndCode /\ sent[Len(sent)].frame.state = st

IsPrefix(a, b) == Len(a) <= Len(b) /\ a = SubSeq(b, 1, Len(a))

RunToEnd == cpc = "done" /\ ~cancelled

(* C4 as the spec states it: /^/ then /$/ on the empty input run both      *)
(* actions, /^/ then /$/.                                                  *)
C4_BothFire ==
  (prog = 2 /\ input = <<>> /\ RunToEnd) => ActionsRun = <<4, 30>>

(* C4 as the code has it: /^/ then /$/ on the empty input run the action   *)
(* of /^/ once and no other action.                                        *)
C4_OnlyFirstFires ==
  (prog = 2 /\ input = <<>>) =>
    /\ IsPrefix(ActionsRun, <<4>>)
    /\ RunToEnd => ActionsRun = <<4>>

C4_Witness == prog = 2 /\ input = <<>> /\ RunToEnd /\ ActionsRun = <<4>>

(* C5: on the empty input, with several anchored rules matching at the one *)
(* cursor (/^/ /$/, /$/ /^/, /^$/ /^/ /$/), one action runs in all, that   *)
(* of the rule listed first.                                               *)
FirstRule == Programs[prog].Children[1].Id

C5_FirstAnchoredRuleOnly ==
  (prog \in {2, 3, 4} /\ input = <<>>) =>
    /\ Len(ActionsRun) <= 1
    /\ \A k \in 1..Len(ActionsRun) : ActionsRun[k] = FirstRule
    /\ RunToEnd => Len(ActionsRun) = 1

C5_Witness == prog = 4 /\ input = <<>> /\ RunToEnd /\ ActionsRun = <<5>>


(* C6: the texts of the top-level matches and the runes skipped, put       *)
(* together in order, are the input read so far: with the runes of the     *)
(* root scanner's buffer and the runes not read yet they make the input at *)
(* every head of the root's loop, and they are the input when the root     *)
(* scanner has run to the end without cancellation.                        *)
RootFinished == stk = <<>> /\ rpc \in {"rootEnd", "done"}

C6_PiecesMakeInput ==
  /\ IsPrefix(Flatten(pieces), input)
  /\ (stk # <<>> /\ stk[1].pc = "loop") => Flatten(pieces) \o stk[1].runes \o stk[1].in = input
  /\ (RootFinished /\ ~cancelled) => Flatten(pieces) = input

(* C6, its case: /aab/ /a/ /\n/ on "aa\n": the attempt at the first rune   *)
(* reads all three runes and matches one; the run ends with three pieces.  *)
C6_Witness ==
  /\ prog = 8 /\ input = <<Runes.a, Runes.a, Runes.nl>>
  /\ RootFinished /\ ~cancelled
  /\ pieces = <<<<Runes.a>>, <<Runes.a>>, <<Runes.nl>>>>

(* C7: a frame of a nested scan follows the frame (in ver 11 the start     *)
(* frame) of a match of the scope above with no frame of that scope or of  *)
(* one further up in between, so in ver 11 before that match's end frame,  *)
(* and lies inside the match; the caller takes the frames in the order     *)
(* they were sent; the matches are sent in the order of their offsets.     *)
(* ver 12 sends no end frame: the frame of state -1 that ends a nested     *)
(* scan stands for it and is held to the first part like any other frame   *)
(* of the nested scan, whether the context is cancelled or not.            *)
FramesSent == [k \in 1..Len(sent) |-> sent[k].frame]

IsDefaultFrame(f) == ver = 12 /\ f.state = -1

Span(e) == sent[e].off + Len(sent[e].frame.text)

InsideParent(k) ==
  \E j \in 1..(k - 1) :
    /\ IsMatchFrame(sent[j])
    /\ sent[j].depth = sent[k].depth - 1
    /\ HasNest(prog, sent[j].frame.state)
    /\ \A m \in (j + 1)..k : sent[m].depth >= sent[k].depth
    /\ sent[j].off <= sent[k].off /\ Span(k) <= Span(j)

ReceivedInScanOrder ==
  /\ acts = SelectSeq(FramesSent, LAMBDA f : ~IsDefaultFrame(f))
  /\ \A k, l \in 1..Len(sent) :
       (k < l /\ IsMatchFrame(sent[k]) /\ IsMatchFrame(sent[l])) =>
         /\ sent[k].off <= sent[l].off
         /\ sent[k].depth >= sent[l].depth => Span(k) <= sent[l].off

C7_NestedInsideParentInOrder ==
  /\ \A k \in 1..Len(sent) : sent[k].depth >= 2 => InsideParent(k)
  /\ ReceivedInScanOrder

(* C7 but for the frame of state -1 of a nested scan of ver 12 sent after  *)
(* the context was cancelled: every other frame of a nested scan is inside *)
(* its parent, and the frames are received in the order of the scan.       *)
C7_NestedInsideParentUnlessCancelled ==
  /\ \A k \in 1..Len(sent) :
       (sent[k].depth >= 2 /\ ~(IsDefaultFrame(sent[k].frame) /\ cancelled)) => InsideParent(k)
  /\ ReceivedInScanOrder

(* C7, the case that holds, in ver 11: a match, a match nested in it and a *)
(* match nested in that one have been sent, and the end frame of the       *)
(* first.                                                                  *)
C7_Witness ==
  /\ ver = 11
  /\ \E j, k, l \in 1..Len(sent) :
       /\ j < k /\ k < l
       /\ IsMatchFrame(sent[j]) /\ sent[j].depth = 1
       /\ IsMatchFrame(sent[k]) /\ sent[k].depth = 2
       /\ IsMatchFrame(sent[l]) /\ sent[l].depth = 3
       /\ sent[Len(sent)].depth = 1
       /\ LastSentIsEndOf(sent[j].frame.state)

(* C7, the case that holds, in ver 12 with no cancellation: a match, a     *)
(* match nested in it and the frame of state -1 of the nested scan.        *)
C7_WitnessDefault ==
  /\ ver = 12 /\ ~cancelled
  /\ \E j, k, l \in 1..Len(sent) :
       /\ j < k /\ k < l
       /\ IsMatchFrame(sent[j]) /\ sent[j].depth = 1
       /\ IsMatchFrame(sent[k]) /\ sent[k].depth = 2
       /\ IsDefaultFrame(sent[l].frame) /\ sent[l].depth = 2

(* C7, the case that fails: in ver 12, after the context was cancelled,    *)
(* the first frame sent is the frame of state -1 of a nested scan.         *)
C7_StrayDefaultFrame ==
  /\ ver = 12 /\ cancelled /\ sent # <<>>
  /\ IsDefaultFrame(sent[1].frame) /\ sent[1].depth = 2

(* C8 as the spec states it: once the caller has taken a frame, the        *)
(* scanner takes no step until the caller receives again.                  *)
C8_NoScannerStepDuringAction ==
  [][(cpc = "user" /\ sent # <<>>) => UNCHANGED <<stk, rpc>>]_vars

(* C8 as the code has it: while the caller runs its code the scanner may   *)
(* step, but no frame is handed over: what was sent, the frame the caller  *)
(* holds and the code it has been given to run change only in a step in    *)
(* which the caller is receiving.                                          *)
C8_HandoverOnlyAtReceive ==
  [][cpc # "recv" => UNCHANGED <<sent, curFrame, acts>>]_vars

(* C8, its case: the caller runs the code of a frame it took while the     *)
(* scanner is in the inner loop of an attempt.                             *)
C8_Witness ==
  /\ cpc = "user" /\ sent # <<>>
  /\ stk # <<>> /\ Top.pc = "inner" /\ Top.pos > 0

(* C9: once Stop has been called the scanner goroutine can always take a   *)
(* step of its own until it has exited: it is never left at a send that    *)
(* only the caller can complete.  Stated of the runtime with the stop      *)
(* channel.                                                                *)
GoroutineExited == stk = <<>> /\ rpc = "done"

C9_StopNeverLeavesScannerBlocked ==
  (cancelled /\ ~GoroutineExited) => ENABLED ScannerStep10

(* The same of the runtimes with the context (ver 11 and ver 12), with the *)
(* guards of the scanner's steps written out: at a send the cancelled      *)
(* context completes the select, elsewhere the scanner runs on.            *)
ScannerCanStep ==
  \/ AtSend /\ cancelled
  \/ stk # <<>> /\ Top.pc \in {"loop", "inner", "stuck", "nest", "reset"}

C9_ContextScannerNeverBlocked ==
  (cancelled /\ ~GoroutineExited) => ScannerCanStep

(* C9 as a property of behaviours: after Stop the goroutine exits.         *)
C9_StopLeadsToExit == cancelled ~> GoroutineExited

(* C10 as the spec states it: a run to the end of the input without        *)
(* cancellation ends with a frame of state -1 and empty text.              *)
LastSent == sent[Len(sent)].frame

C10_SentinelIsLastFrame ==
  (GoroutineExited /\ ~cancelled) =>
    (sent # <<>> /\ LastSent.state = -1 /\ LastSent.text = <<>>)

(* C10 as the code has it: the last frame of such a run is, in ver 12, the *)
(* root scanner's frame of state -1 and empty text, and in ver 11 the end  *)
(* frame of state 0 and empty text, after which the channel is closed; in  *)
(* both the goroutine has nothing more to send.                            *)
C10_LastFrameByRuntime ==
  (GoroutineExited /\ ~cancelled) =>
    /\ sent # <<>>
    /\ LastSent.text = <<>>
    /\ ver = 12 => (LastSent.state = -1 /\ sent[Len(sent)].depth = 1 /\ ~closed)
    /\ ver = 11 => (LastSent.state = 0 /\ LastSent.kind = kEndCode /\ closed)
    /\ \A k \in 1..(Len(sent) - 1) :
         (ver = 12 /\ sent[k].depth = 1) => sent[k].frame.state # -1
    /\ ~ENABLED appendFrameSend /\ ~ENABLED ScannerStep

(* C10, its case: ver 12 has read a non-empty input to its end and sent    *)
(* matches and, last, the frame of state -1.                               *)
C10_Witness ==
  /\ ver = 12 /\ GoroutineExited /\ ~cancelled
  /\ input # <<>> /\ Len(sent) >= 3 /\ LastSent.state = -1

----------------------------------------------------------------------------
(* The claims on the generated Lex, checked on SpecLex and FairSpecLex.     *)

IsLeafEntry(e) == e.frame.state > 0 /\ ~HasNest(prog, e.frame.state)

IsAct(e) == e.k = "act"

(* The rules whose action has run, and the rules of the matches sent that  *)
(* have an action, both in order.                                          *)
ActsRun == LET a == SelectSeq(lex.log, IsAct) IN [k \in 1..Len(a) |-> a[k].id]

MatchesSent == LET m == SelectSeq(sent, IsLeafEntry) IN [k \in 1..Len(m) |-> m[k].frame.state]

LexReturnedZero == lex.pc = "done" /\ lex.result = 0

(* C11: for any finite input, a caller that calls Lex again after every    *)
(* non-zero return gets, after finitely many calls, the return value 0     *)
(* (unless Stop is called), and Lex returns 0 only when the scanner has    *)
(* read the input to its end and the action of every match it sent has     *)
(* been run.                                                               *)
C11_LexReturnsZeroAfterAllActions ==
  /\ []((LexReturnedZero /\ ~cancelled) => (GoroutineExited /\ ActsRun = MatchesSent))
  /\ <>(cancelled \/ LexReturnedZero)

(* C11, its case: Lex returned non-zero from an action, was called again,  *)
(* and returned 0 after three or more actions.                             *)
C11_Witness ==
  /\ LexReturnedZero /\ ~cancelled
  /\ Len(ActsRun) >= 3
  /\ \E k \in 1..Len(lex.log) : lex.log[k] \in lex.rets

(* The code a Lex that never returns early runs for the frames sq, in      *)
(* order, after the events log with the scopes open (innermost last) open: *)
(* the frame of a rule with children runs the start code of its scope, the *)
(* frame of another rule its action, the frame of state -1 the end code of *)
(* the innermost open scope.                                               *)
RECURSIVE CodeOfFrames(_, _, _)
CodeOfFrames(sq, open, log) ==
  IF sq = <<>> \/ open = <<>> THEN log
  ELSE LET x == sq[1].frame.state
           rest == SubSeq(sq, 2, Len(sq))
       IN IF x = -1
          THEN CodeOfFrames(rest, SubSeq(open, 1, Len(open) - 1),
                            Append(log, Ev("end", open[Len(open)])))
          ELSE IF HasNest(prog, x)
          THEN CodeOfFrames(rest, Append(open, x), Append(log, Ev("start", x)))
          ELSE CodeOfFrames(rest, open, Append(log, Ev("act", x)))

ExpectedLog == CodeOfFrames(sent, <<0>>, <<Ev("start", 0)>>)

(* C12: when the code of an action or of a scope's end returns from Lex,   *)
(* the following calls of Lex go on at the same level with the same stack: *)
(* over all the calls, the start code, actions and end code that have run  *)
(* are those of the frames received, once each and in the order in which a *)
(* Lex that never returns early runs them.                                 *)
C12_CodeOncePerMatchInOrder ==
  (lex.log # <<>> /\ ~cancelled) => lex.log = ExpectedLog

(* The 0-based line and column of offset off of the whole input: the      *)
(* newlines before it, and the runes after the last of them.               *)
RECURSIVE LineOf(_)
LineOf(off) ==
  IF off = 0 THEN 0 ELSE LineOf(off - 1) + (IF input[off] = Runes.nl THEN 1 ELSE 0)

RECURSIVE ColumnOf(_)
ColumnOf(off) ==
  IF off = 0 \/ input[off] = Runes.nl THEN 0 ELSE ColumnOf(off - 1) + 1

IsRuleFrame(k) == sent[k].frame.state > 0

(* C13: the frame of every match, nested matches included, carries the     *)
(* text of the match and the 0-based line and column, in the whole input,  *)
(* of the first rune of the match; the column starts again at 0 after a    *)
(* newline, and the runes read ahead of the match do not count.            *)
C13_FramePositionInWholeInput ==
  \A k \in 1..Len(sent) :
    IsRuleFrame(k) =>
      /\ sent[k].off + Len(sent[k].frame.text) <= Len(input)
      /\ sent[k].frame.text = SubSeq(input, sent[k].off + 1, sent[k].off + Len(sent[k].frame.text))
      /\ sent[k].frame.line = LineOf(sent[k].off)
      /\ sent[k].frame.column = ColumnOf(sent[k].off)

(* C13, its case: a nested match on the second line with a rune read      *)
(* ahead of its parent's match.                                            *)
C13_Witness ==
  \E k \in 1..Len(sent) :
    /\ IsRuleFrame(k) /\ sent[k].depth >= 2
    /\ sent[k].frame.line = 1
    /\ sent[k].off + Len(sent[k].frame.text) < Len(input)
    /\ input[sent[k].off + Len(sent[k].frame.text) + 1] # Runes.nl

IsSuffix(a, b) == Len(a) <= Len(b) /\ a = SubSeq(b, Len(b) - Len(a) + 1, Len(b))

(* C14: a nested scanner scans the text of its parent's match and nothing  *)
(* else: it has no reader, its buffer is always what is left of that text, *)
(* its matches are pieces of that text, while it runs the reader and the   *)
(* buffer of the root scanner are left alone, and (unless Stop was called) *)
(* its scan returns only when nothing is left of the text.                 *)
C14_NestedScansParentText ==
  [][/\ \A d \in 2..Len(stk') :
          /\ stk'[d].inNil /\ stk'[d].in = <<>>
          /\ IsSuffix(stk'[d].runes, stk'[d - 1].text)
          /\ stk'[d].pc \in {"start", "nest", "end", "reset"} => IsPrefix(stk'[d].text, stk'[d].runes)
     /\ (Len(stk) >= 2 /\ Len(stk') >= 1) =>
          (stk'[1].in = stk[1].in /\ stk'[1].runes = stk[1].runes /\ stk'[1].text = stk[1].text)
     /\ (Len(stk) >= 2 /\ Len(stk') < Len(stk) /\ ~cancelled) => Top.runes = <<>>]_vars

(* C14, its case: a nested scanner has found a match while the reader of   *)
(* the root scanner still holds input.                                     *)
C14_Witness ==
  /\ Len(stk) >= 2 /\ Top.pc = "start" /\ Top.text # <<>>
  /\ stk[1].in # <<>> /\ ~stk[1].inNil

Count(sq, e) == Cardinality({k \in 1..Len(sq) : sq[k] = e})

(* C15: the start code of the root scope runs once, before every other     *)
(* code of the lexer, and its end code runs once, after the action of the  *)
(* last match, when the scanner has read the input to its end.             *)
C15_RootStartOnceEndOnce ==
  (lex.log # <<>> /\ ~cancelled) =>
    /\ lex.log[1] = Ev("start", 0)
    /\ Count(lex.log, Ev("start", 0)) = 1
    /\ Count(lex.log, Ev("end", 0)) <= 1
    /\ Count(lex.log, Ev("end", 0)) = 1 =>
         /\ lex.log[Len(lex.log)] = Ev("end", 0)
         /\ GoroutineExited /\ LexReturnedZero /\ ActsRun = MatchesSent

----------------------------------------------------------------------------
(* The claims on the DFA builder, checked on SpecDfa.                      *)

(* The runes the transitions of a built DFA are probed with: the runes of  *)
(* the rules, their neighbours and the newline.                            *)
ProbeRunes == ((Runes.a - 1)..(Runes.f + 1)) \cup {Runes.nl}

DfaIds == 0..(Len(bld.dfa) - 1)

(* The edges of node n a rune r may take: its rune edges of r, its class   *)
(* edges with r in the range, its wild edges.                              *)
RuneEdgesOf(n, r) == SelectSeq(n.E, LAMBDA e : e.Kind = KRune /\ e.R = r)

ClassEdgesOf(n, r) == SelectSeq(n.E, LAMBDA e : e.Kind = KClass /\ inClass(e.Lim, r))

(* C16: the built DFA is total on runes: every state has one wild edge,    *)
(* for every rune at most one rune edge and at most one class edge, and    *)
(* the transition the runtime takes on the rune leads to a state of the    *)
(* DFA or to the dead state -1.                                            *)
C16_DfaTotalOnRunes ==
  bld.phase = "done" =>
    \A i \in DfaIds : \A r \in ProbeRunes :
      LET n == Node(bld.dfa, i) IN
        /\ Len(EdgesOfKind(n, KWild)) = 1
        /\ Len(RuneEdgesOf(n, r)) <= 1
        /\ Len(ClassEdgesOf(n, r)) <= 1
        /\ HasRuneStep(n)
        /\ runeStep(n, r) \in DfaIds \cup {-1}
        /\ \A k \in 1..Len(n.E) : n.E[k].Dst \in DfaIds \cup {-1}

(* C16, its case: a DFA of three or more states with a state that has a    *)
(* rune edge, a class edge, and runes that lead to the dead state.         *)
C16_Witness ==
  /\ bld.phase = "done" /\ Len(bld.dfa) >= 3
  /\ \E i \in DfaIds :
       /\ EdgesOfKind(Node(bld.dfa, i), KRune) # <<>>
       /\ EdgesOfKind(Node(bld.dfa, i), KClass) # <<>>
       /\ \E r \in ProbeRunes : runeStep(Node(bld.dfa, i), r) = -1
       /\ \E r \in ProbeRunes : runeStep(Node(bld.dfa, i), r) > 0

(* The NFA edge e is taken on rune r.                                      *)
NfaTakes(e, r) ==
  \/ e.Kind = KRune /\ e.R = r
  \/ e.Kind = KWild
  \/ e.Kind = KClass /\ inClass(e.Lim, r)

(* The NFA nodes reached from the nodes S by nil edges.                    *)
RECURSIVE RefNilReach(_, _)
RefNilReach(nfa, S) ==
  LET more == {Node(nfa, i).E[k].Dst : <<i, k>> \in
                 {p \in S \X (1..Len(nfa)) : p[2] <= Len(Node(nfa, p[1]).E)
                                               /\ Node(nfa, p[1]).E[p[2]].Kind = KNil}}
  IN IF more \subseteq S THEN S ELSE RefNilReach(nfa, S \cup more)

(* The NFA nodes the nodes of DFA state i lead to on rune r, without the   *)
(* nodes that have nil edges only.                                         *)
RequiredSet(i, r) ==
  LET set == Range(Node(bld.dfa, i).Set)
      dsts == {Node(bld.nfa, j).E[k].Dst : <<j, k>> \in
                 {p \in set \X (1..Len(bld.nfa)) : p[2] <= Len(Node(bld.nfa, p[1]).E)
                                                   /\ NfaTakes(Node(bld.nfa, p[1]).E[p[2]], r)}}
  IN RefNilReach(bld.nfa, dsts) \ constructAllNilList(bld.nfa)

DstSet(d) == IF d = -1 THEN {} ELSE Range(Node(bld.dfa, d).Set)

(* C17: in every state of the built DFA every rune has at most one rune    *)
(* edge (it is a single) and lies in at most one range, every other rune   *)
(* is left to the wild edge; and a rune that is a single, inside a range   *)
(* or not, is taken by its rune edge to the state of the NFA nodes that    *)
(* the NFA edges taken on that rune lead to.                               *)
C17_AlphabetPartition ==
  bld.phase = "done" =>
    \A i \in DfaIds : \A r \in ProbeRunes :
      LET n == Node(bld.dfa, i) IN
        /\ Len(RuneEdgesOf(n, r)) <= 1
        /\ Len(ClassEdgesOf(n, r)) <= 1
        /\ Len(EdgesOfKind(n, KWild)) = 1
        /\ RuneEdgesOf(n, r) # <<>> =>
             /\ runeStep(n, r) = RuneEdgesOf(n, r)[1].Dst
             /\ DstSet(runeStep(n, r)) = RequiredSet(i, r)

(* C17, its case: a rune that is a single and lies in a range whose edge   *)
(* leads elsewhere.                                                        *)
C17_Witness ==
  /\ bld.phase = "done"
  /\ \E i \in DfaIds : \E r \in ProbeRunes :
       LET n == Node(bld.dfa, i) IN
         /\ RuneEdgesOf(n, r) # <<>> /\ ClassEdgesOf(n, r) # <<>>
         /\ RuneEdgesOf(n, r)[1].Dst # ClassEdgesOf(n, r)[1].Dst

(* C18: two runs of the builder on the same rules give the same DFA: the   *)
(* same number of states, and for every id the same NFA subset, accept     *)
(* label and edges in the same order, whatever the order in which the      *)
(* ranges over the maps alphabet and tab gave the keys.  Every run ends    *)
(* with the DFA of the run that takes the keys in ascending order.         *)
C18_BuildDfaDeterministic ==
  bld.phase = "done" => bld.dfa = BuildDfa(BuildNfa(bld.rules))

(* C18, its case: a DFA of three or more states was built, with a state    *)
(* whose map alphabet had two or more keys.                                *)
C18_Witness ==
  /\ bld.phase = "done" /\ Len(bld.dfa) >= 3
  /\ \E i \in DfaIds : Len(EdgesOfKind(Node(bld.dfa, i), KRune)) >= 2


----------------------------------------------------------------------------
(* Claims on the parser of Nex source.                                     *)

(* The place of the first rune of s that is no white space, 0 if none.     *)
FirstNonWs(s) ==
  IF \A i \in 1..Len(s) : isSpace(s[i]) THEN 0
  ELSE CHOOSE i \in 1..Len(s) : ~isSpace(s[i]) /\ \A j \in 1..(i - 1) : isSpace(s[j])

(* The places after the opening delimiter at d where the delimiter stands  *)
(* with no backslash of the regex just before it.                          *)
DelimEnds(s, d) ==
  {j \in (d + 1)..Len(s) : s[j] = s[d] /\ ~(j - 1 > d /\ s[j - 1] = SrcRunes.bslash)}

Least(S) == CHOOSE x \in S : \A y \in S : x <= y

(* The call e of readRegex on the source s did as C19 says.                *)
EndsAtUnescapedDelim(s, e) ==
  LET d == e.open
      ends == DelimEnds(s, d)
  IN /\ d \in 1..Len(s) /\ e.delim = s[d] /\ ~isSpace(s[d])
     /\ ~e.nil <=> /\ ends # {}
                   /\ \A k \in (d + 1)..(Least(ends) - 1) : s[k] # Runes.nl
     /\ ~e.nil => /\ e.node.Regex = SubSeq(s, d + 1, Least(ends) - 1)
                  /\ e.p.char = Least(ends)

(* C19: a regex ends at the first delimiter that no backslash stands just  *)
(* before, for every delimiter: every call of readRegex that parseRoot     *)
(* makes, for a rule of the root or of a scope, gives a regex exactly when *)
(* the source has such a delimiter behind the opening one with no newline  *)
(* before it, the regex is the text between the opening delimiter and that *)
(* place, a delimiter after a backslash included, and the parser stands at *)
(* that place; a call opens behind the end of the call before it, and the  *)
(* first call of a source that opens no scope at its head opens at the     *)
(* first rune that is no white space.                                      *)
C19_RegexEndsAtUnescapedDelim ==
  psr.phase = "parsed" =>
    /\ \A k \in 1..Len(psr.reads) : EndsAtUnescapedDelim(psr.in, psr.reads[k])
    /\ \A k \in 1..(Len(psr.reads) - 1) :
         ~psr.reads[k].nil /\ psr.reads[k + 1].open > psr.reads[k].p.char
    /\ (FirstNonWs(psr.in) # 0 /\ psr.in[FirstNonWs(psr.in)] # SrcRunes.lt) =>
         psr.reads # <<>> /\ psr.reads[1].open = FirstNonWs(psr.in)

(* A source was parsed whose second rule has a regex that holds its        *)
(* delimiter after a backslash, with a rule behind it; the delimiters of   *)
(* the first two rules differ.                                             *)
C19_Witness ==
  /\ psr.phase = "parsed"
  /\ Len(psr.reads) >= 3
  /\ ~psr.reads[2].nil /\ ~psr.reads[3].nil
  /\ psr.reads[1].delim # psr.reads[2].delim
  /\ \E k \in 1..(Len(psr.reads[2].node.Regex) - 1) :
       /\ psr.reads[2].node.Regex[k] = SrcRunes.bslash
       /\ psr.reads[2].node.Regex[k + 1] = psr.reads[2].delim

(* C19, a second case: a source that opens a scope at its head was parsed, *)
(* and a regex was read in that scope.                                     *)
C19_WitnessScope ==
  /\ psr.phase = "parsed"
  /\ FirstNonWs(psr.in) # 0 /\ psr.in[FirstNonWs(psr.in)] = SrcRunes.lt
  /\ \E i \in 1..Len(psr.reads) : ~psr.reads[i].nil /\ psr.reads[i].node.Regex # <<>>

(* The ids of a rule and of the rules below it, the rule first, then its   *)
(* children in the order of the source.                                    *)
RECURSIVE IdsInOrder(_)
IdsInOrder(node) ==
  <<node.Id>> \o Flatten([i \in 1..Len(node.Children) |-> IdsInOrder(node.Children[i])])

RECURSIVE IdsAscend(_)
IdsAscend(node) ==
  \A i \in 1..Len(node.Children) :
    /\ node.Children[i].Id > node.Id
    /\ i > 1 => node.Children[i].Id > node.Children[i - 1].Id
    /\ IdsAscend(node.Children[i])

(* C20: in the tree parseRoot gives, with or without a parse error, and in *)
(* the program ParseNex returns, with or without an error of genGraphs,    *)
(* the ids of the rules of one scope grow in the order of the source, the  *)
(* id of every child is greater than that of its parent, and so the ids of *)
(* all rules grow in the order of the source.                              *)
C20_IdsFollowSourceOrder ==
  /\ psr.phase = "parsed" =>
       /\ IdsAscend(psr.node)
       /\ LET ids == IdsInOrder(psr.node)
          IN \A i \in 1..(Len(ids) - 1) : ids[i] < ids[i + 1]
  /\ (psr.phase = "done" /\ ~IsNilProgram(psr.program)) =>
       /\ IdsAscend(psr.program)
       /\ LET ids == IdsInOrder(psr.program)
          IN \A i \in 1..(Len(ids) - 1) : ids[i] < ids[i + 1]

(* A program was parsed with a rule that has two rules in its scope.       *)
C20_Witness ==
  /\ psr.phase = "done"
  /\ psr.err = NoErr
  /\ \E i \in 1..Len(psr.program.Children) : Len(psr.program.Children[i].Children) >= 2


----------------------------------------------------------------------------
(* Claims on the states of the built DFA.                                  *)

(* The rule ids of the accepting NFA nodes among the nodes S.              *)
AccIn(S) == {Node(bld.nfa, i).Accept : i \in {j \in S : Node(bld.nfa, j).Accept >= 0}}

LeastId(ids) == IF ids = {} THEN -1 ELSE CHOOSE m \in ids : \A x \in ids : m <= x

(* The states an edge of the kinds ks leads to.                            *)
DstOfKinds(ks) ==
  {Node(bld.dfa, i).E[k].Dst : <<i, k>> \in
     {p \in DfaIds \X (1..(2 * Len(bld.nfa) + 8)) :
        p[2] <= Len(Node(bld.dfa, p[1]).E) /\ Node(bld.dfa, p[1]).E[p[2]].Kind \in ks}} \ {-1}

RuneReached == {0} \cup DstOfKinds({KRune, KClass, KWild})

AssertReached == DstOfKinds({KAssert})

(* C21, as claimed: the accept label of every DFA state, reached by a rune *)
(* or by an assertion, is the least rule id among the accepting NFA nodes  *)
(* of its subset, and -1 exactly when the subset has none.                 *)
C21_AcceptIsMinOfSubset ==
  bld.phase = "done" =>
    \A i \in DfaIds : Node(bld.dfa, i).Accept = LeastId(AccIn(DstSet(i)))

(* C21, amended: the label of the start state and of every state a rune,   *)
(* class or wild edge leads to is the least rule id among the accepting    *)
(* NFA nodes of its subset, -1 exactly when there is none; the label of    *)
(* any state is -1 or the id of an accepting node of its subset, and so    *)
(* never below that least id.                                              *)
C21_AcceptIsMinOnRuneStates ==
  bld.phase = "done" =>
    /\ \A i \in RuneReached : Node(bld.dfa, i).Accept = LeastId(AccIn(DstSet(i)))
    /\ \A i \in DfaIds : Node(bld.dfa, i).Accept \in AccIn(DstSet(i)) \cup {-1}

(* C21, its case: a state behind a rune with an accepting node, and a      *)
(* state behind an assertion whose label is not the least id of its        *)
(* subset.                                                                 *)
C21_Witness ==
  /\ bld.phase = "done"
  /\ \E i \in RuneReached \ {0} : AccIn(DstSet(i)) # {}
  /\ \E i \in AssertReached : Node(bld.dfa, i).Accept # LeastId(AccIn(DstSet(i)))


(* The set that BuildDfa asks get for when it makes edge e of node v.      *)
RequestSt(b, v, e) ==
  CASE e.Kind = KAssert ->
         closure(b.nfa, setToSt(b.nfa, Node(b.nodes, v).Set, nfNotAccepting), CbAssert(e.A))
    [] e.Kind = KRune -> makeSt(b, v, CbSingle(e.R))
    [] e.Kind = KClass -> makeSt(b, v, CbRange(e.Lim[1]))
    [] e.Kind = KWild -> makeSt(b, v, CbWild)

BuiltIds == 0..(Len(bld.b.nodes) - 1)

(* The edges made so far, as pairs of node and place.                      *)
BuiltEdges ==
  {p \in BuiltIds \X (1..(2 * Len(bld.nfa) + 8)) : p[2] <= Len(Node(bld.b.nodes, p[1]).E)}

(* C22, as claimed: no two DFA states stand for the same NFA subset.       *)
C22_OneStatePerSubset ==
  bld.phase \in {"loop", "done"} =>
    \A i, j \in BuiltIds :
      i # j => Range(Node(bld.b.nodes, i).Set) # Range(Node(bld.b.nodes, j).Set)

(* C22, amended: no two DFA states have the same NFA subset and the same   *)
(* accept label; asking get again for the set of an edge gives the state   *)
(* the edge leads to and changes nothing (no new state, nothing put on     *)
(* todo); a state is on todo once and until its edges are made; the edge   *)
(* leads to -1 exactly when the closure of the set, the all-nil nodes      *)
(* left out, is empty, and no state has the empty subset.                  *)
C22_OneStatePerSubsetAndLabel ==
  bld.phase \in {"loop", "done"} =>
    LET b == bld.b IN
      /\ \A i, j \in BuiltIds :
           i # j => <<Range(Node(b.nodes, i).Set), Node(b.nodes, i).Accept>>
                      # <<Range(Node(b.nodes, j).Set), Node(b.nodes, j).Accept>>
      /\ \A p \in BuiltEdges :
           LET e == Node(b.nodes, p[1]).E[p[2]]
               st == RequestSt(b, p[1], e)
           IN /\ get(b, st) = [b |-> b, id |-> e.Dst]
              /\ e.Dst = -1 <=>
                   stToSet(makeStKeySt(b.allNilNodes, nilClosure(b.nfa, st))) = <<>>
      /\ \A k, m \in 1..Len(b.todo) : k # m => b.todo[k] # b.todo[m]
      /\ \A i \in BuiltIds : (i \in Range(b.todo)) <=> Node(b.nodes, i).E = <<>>
      /\ \A i \in BuiltIds : Node(b.nodes, i).Set # <<>>

(* C22, its case: two states with one subset and two labels, a state that  *)
(* two edges lead to, and an edge to -1.                                   *)
C22_Witness ==
  /\ bld.phase = "done"
  /\ \E i, j \in BuiltIds :
       /\ i # j
       /\ Node(bld.b.nodes, i).Set = Node(bld.b.nodes, j).Set
  /\ \E p, q \in BuiltEdges :
       /\ p # q
       /\ Node(bld.b.nodes, p[1]).E[p[2]].Dst = Node(bld.b.nodes, q[1]).E[q[2]].Dst
       /\ Node(bld.b.nodes, p[1]).E[p[2]].Dst # -1
  /\ \E p \in BuiltEdges : Node(bld.b.nodes, p[1]).E[p[2]].Dst = -1


----------------------------------------------------------------------------
(* Claims on the list of ranges.                                           *)

PairsOf(l) == [j \in 1..(Len(l) \div 2) |-> <<l[2 * j - 1], l[2 * j]>>]

(* C23: after any sequence of insertions from the empty list the list of   *)
(* ranges is sorted and pairwise disjoint: every pair has lo <= hi, and    *)
(* the hi of a pair is below the lo of the next.                           *)
C23_LimitsSortedDisjoint ==
  bld.phase = "limits" =>
    LET ps == PairsOf(bld.l) IN
      /\ Len(bld.l) % 2 = 0
      /\ \A j \in 1..Len(ps) : ps[j][1] <= ps[j][2]
      /\ \A j \in 1..(Len(ps) - 1) : ps[j][2] < ps[j + 1][1]

(* The ranges S put in one after the other, the lowest first.              *)
RECURSIVE InsertAscending(_, _)
InsertAscending(l, S) ==
  IF S = {} THEN l
  ELSE LET p == CHOOSE x \in S : \A y \in S : x[1] < y[1] \/ (x[1] = y[1] /\ x[2] <= y[2])
       IN InsertAscending(appendLimits(l, p[1], p[2]), S \ {p})

(* C24: the list depends on the set of the ranges put in only, not on      *)
(* their order: it is the list that the same ranges give when put in in    *)
(* ascending order.                                                        *)
C24_LimitsOrderFree ==
  bld.phase = "limits" => bld.l = InsertAscending(<<>>, Range(bld.ins))


----------------------------------------------------------------------------
(* Claims on the assert edges of the built DFA.                            *)

(* The NFA nodes reached from the nodes S by nil and assert edges.         *)
RECURSIVE RefAssertReach(_, _)
RefAssertReach(nfa, S) ==
  LET more == {Node(nfa, i).E[k].Dst : <<i, k>> \in
                 {p \in S \X (1..Len(nfa)) :
                    p[2] <= Len(Node(nfa, p[1]).E)
                    /\ Node(nfa, p[1]).E[p[2]].Kind \in {KNil, KAssert}}}
  IN IF more \subseteq S THEN S ELSE RefAssertReach(nfa, S \cup more)

(* The union of the masks of the assert edges of the nodes S.              *)
MasksOf(nfa, S) ==
  UNION {Node(nfa, i).E[k].A : <<i, k>> \in
           {p \in S \X (1..Len(nfa)) :
              p[2] <= Len(Node(nfa, p[1]).E) /\ Node(nfa, p[1]).E[p[2]].Kind = KAssert}}

ReachableMask(i) == MasksOf(bld.nfa, RefAssertReach(bld.nfa, DstSet(i)))

AssertEdgesOf(i) == EdgesOfKind(Node(bld.dfa, i), KAssert)

AllAsserts ==
  aStartText \cup aEndText \cup aStartLine \cup aEndLine \cup aWordBoundary \cup aNoWordBoundary

(* C25: in every state of the built DFA the masks of the assert edges are  *)
(* the non-empty subsets of the union of the masks of the assert edges     *)
(* reached from the state by nil and assert edges, each on one edge; so    *)
(* assertMask is that union, and every mask of a cursor that meets it has  *)
(* one assert edge, which assertStep takes.                                *)
C25_AssertEdgesAreSubsets ==
  bld.phase = "done" =>
    \A i \in DfaIds :
      LET es == AssertEdgesOf(i)
          n == Node(bld.dfa, i)
      IN /\ {es[k].A : k \in 1..Len(es)} = SUBSET ReachableMask(i) \ {{}}
         /\ \A k, m \in 1..Len(es) : k # m => es[k].A # es[m].A
         /\ assertMask(n) = ReachableMask(i)
         /\ \A c \in SUBSET AllAsserts :
              c \cap assertMask(n) # {} =>
                /\ Cardinality({k \in 1..Len(es) : es[k].A = c \cap assertMask(n)}) = 1
                /\ \E k \in 1..Len(es) :
                     es[k].A = c \cap assertMask(n)
                     /\ assertStep(n, c \cap assertMask(n)) = es[k].Dst

(* C25, its case: a state whose assert edges carry two bits and their      *)
(* union.                                                                  *)
C25_Witness ==
  /\ bld.phase = "done"
  /\ \E i \in DfaIds : Cardinality(ReachableMask(i)) >= 2 /\ Len(AssertEdgesOf(i)) >= 3


----------------------------------------------------------------------------
(* Claims on the assertion masks and the attempts of the runtime scanner.  *)

(* C26: the mask the scanner holds for a place of its buffer has StartText *)
(* exactly when the place is offset 0 of the scanner's input and EndText   *)
(* exactly when it is the end of that input: the first place of the buffer *)
(* after a shift is no start of text, and no place is the end of the text  *)
(* while input is left to read.                                            *)
C26_TextAssertsAtEndsOnly ==
  \A d \in 1..Len(stk) :
    \A k \in 1..Len(stk[d].asserts) :
      /\ Cursor(d) >= 0
      /\ aStartText \subseteq stk[d].asserts[k] <=> Cursor(d) + k - 1 = 0
      /\ aEndText \subseteq stk[d].asserts[k] <=> Cursor(d) + k - 1 = Len(ScannerInput(d))

(* C26, its case: after a shift the root scanner holds the mask of the     *)
(* first place of its buffer, and a nested scanner that has shifted holds  *)
(* the mask of the end of its text while the root has runes left.          *)
C26_Witness ==
  /\ Len(stk) >= 2
  /\ Cursor(1) > 0 /\ stk[1].asserts # <<>> /\ stk[1].runes # <<>>
  /\ Cursor(2) > 0 /\ stk[2].asserts # <<>>
  /\ aEndText \subseteq stk[2].asserts[Len(stk[2].asserts)]


(* The word runes as the specification gives them, [A-Za-z0-9_], and       *)
(* whether the rune at place p of the sequence rs is one; a place outside  *)
(* the sequence holds no word rune.                                        *)
IsWordRune(r) ==
  \/ (r >= 97 /\ r <= 122) \/ (r >= 65 /\ r <= 90) \/ (r >= 48 /\ r <= 57)
  \/ r = WordRunes.under

WordAt(rs, p) == p >= 1 /\ p <= Len(rs) /\ IsWordRune(rs[p])

(* C27: the mask of a place has WordBoundary exactly when one of the runes *)
(* on the two sides of the place is a word rune of [A-Za-z0-9_] and the    *)
(* other is not, a missing neighbour being no word rune, and has           *)
(* NoWordBoundary exactly otherwise.                                       *)
C27_WordBoundaryByNeighbours ==
  \A d \in 1..Len(stk) :
    \A k \in 1..Len(stk[d].asserts) :
      LET p == Cursor(d) + k - 1
          differ == WordAt(ScannerInput(d), p) # WordAt(ScannerInput(d), p + 1)
      IN /\ aWordBoundary \subseteq stk[d].asserts[k] <=> differ
         /\ aNoWordBoundary \subseteq stk[d].asserts[k] <=> ~differ


(* The innermost scanner is at the end of an attempt that found no match   *)
(* it may take: none at all, or an empty one where a rune is asked for.    *)
AttemptFailed == stk # <<>> /\ Top.pc = "stuck" /\ Top.matchPos < Top.minCapture

(* What is left of the input of a scanner: its buffer, then what its       *)
(* reader has not delivered.                                               *)
Unread(s) == s.runes \o s.in

(* C28: an attempt that ends with no match and a buffer that is not empty  *)
(* drops exactly one rune, the one the attempt started at, and the next    *)
(* attempt starts at the rune after it; with an empty buffer the scanner   *)
(* leaves its loop instead.                                                *)
C28_NoMatchDropsOneRune ==
  [][AttemptFailed /\ stk' # stk =>
       IF Top.runes # <<>>
       THEN /\ Len(stk') = Len(stk)
            /\ Top'.pc = "loop" /\ Top'.pos = 0
            /\ Unread(Top') = Tail(Unread(Top))
            /\ Cursor(Len(stk))' = Cursor(Len(stk)) + 1
       ELSE /\ Top.in = <<>>
            /\ \/ Len(stk') = Len(stk) - 1
               \/ Len(stk') = Len(stk) /\ Top'.pc = "sentinel"]_vars

(* C28, its case: the root scanner is at the head of its loop after an     *)
(* attempt that dropped one rune: the last piece shifted out is one rune   *)
(* and no frame was sent for a match at its offset; runes are left for the *)
(* next attempt.                                                           *)
C28_Witness ==
  /\ Len(stk) = 1 /\ Top.pc = "loop" /\ Top.pos = 0 /\ ~cancelled
  /\ Top.runes # <<>>
  /\ pieces # <<>> /\ Len(pieces[Len(pieces)]) = 1
  /\ \A k \in 1..Len(sent) : ~(sent[k].depth = 1 /\ sent[k].off = Cursor(1) - 1)


(* The pass of the inner loop the scanner s is about to make takes an      *)
(* assert transition: the state has assert edges and the mask of the place *)
(* handed out by consumeAsserts meets their mask.                          *)
AssertFires(s) ==
  /\ s.pc = "inner" /\ s.st >= 0
  /\ HasAssertStep(Node(States(prog, s), s.st))
  /\ consumeAsserts(s, assertMask(Node(States(prog, s), s.st))).a # {}

(* The mask of the place of scanner s meets the mask of the assert edges   *)
(* of its state: a transition could be taken were the place's mask handed  *)
(* out.                                                                    *)
AssertOffered(s) ==
  /\ s.pc = "inner" /\ s.st >= 0
  /\ HasAssertStep(Node(States(prog, s), s.st))
  /\ s.pos < Len(s.asserts)
  /\ s.asserts[s.pos + 1] \cap assertMask(Node(States(prog, s), s.st)) # {}

(* C29: within one attempt at most one assert transition is taken at a     *)
(* place: when a pass of the inner loop has taken one and has consumed no  *)
(* rune, the next pass takes none at that place.                           *)
C29_OneAssertPerPlace ==
  [][stk # <<>> /\ AssertFires(Top) /\ stk' # stk /\ Len(stk') = Len(stk)
       /\ Top'.pc = "inner" /\ Top'.pos = Top.pos
     => ~AssertFires(Top')]_vars

(* C29, its case: an assert transition was taken at the place and no rune  *)
(* was consumed since, the attempt goes on, and the state reached has      *)
(* assert edges that the mask of the place meets.                          *)
C29_Witness ==
  /\ stk # <<>> /\ Top.consumedAssert /\ Top.madeProgress
  /\ AssertOffered(Top)


(* The innermost scanner ends a pass of its outer loop by a shift of its   *)
(* buffer: after an attempt without a match, or after the frames of a      *)
(* match.                                                                  *)
ShiftStep ==
  /\ stk # <<>> /\ Top.pc \in {"stuck", "reset"}
  /\ stk' # stk /\ Len(stk') = Len(stk) /\ Top'.pc = "loop"

(* The goroutine of the scanner has come to its end.                       *)
ScannerEnded == stk = <<>> /\ rpc = "done"

(* C30: on a finite input, with a caller that goes on receiving and no     *)
(* Stop, the scanner comes to its end: a pass of the outer loop shifts at  *)
(* least one rune out of the buffer, or it is an empty match, and then the *)
(* next pass of that scanner is made with minCapture 1 and shifts at least *)
(* one rune or ends the scan.                                              *)
C30_ScanTerminates ==
  /\ [][ShiftStep =>
          \/ Cursor(Len(stk))' > Cursor(Len(stk))
          \/ /\ Cursor(Len(stk))' = Cursor(Len(stk))
             /\ Top.matchPos = 0 /\ Top.minCapture = 0 /\ Top'.minCapture = 1]_vars
  /\ <>(cancelled \/ ScannerEnded)

(* C30, its case: the run came to its end without Stop after an empty      *)
(* match that was followed by a pass that shifted a rune: two frames were  *)
(* sent for matches at the same offset of the root, the first empty, and   *)
(* the whole input was shifted out.                                        *)
C30_Witness ==
  /\ ScannerEnded /\ ~cancelled /\ input # <<>>
  /\ Flatten(pieces) = input
  /\ \E k \in 1..Len(pieces) : pieces[k] = <<>> /\ k < Len(pieces) /\ pieces[k + 1] # <<>>


----------------------------------------------------------------------------
(* Claims on the order of the ids of the DFA states.                       *)

(* The states an edge of state i of the list of nodes g leads to.          *)
SuccOf(g, i) == {Node(g, i).E[k].Dst : k \in 1..Len(Node(g, i).E)} \ {-1}

(* The states of g within n edges of state 0, and the least number of      *)
(* edges from state 0 to state j (the number of states if there is no      *)
(* path).                                                                  *)
RECURSIVE Within(_, _)
Within(g, n) ==
  IF n = 0 THEN {0}
  ELSE With(Within(g, n - 1), LAMBDA S : S \cup UNION {SuccOf(g, i) : i \in S})

Dist(g, j) ==
  IF \E n \in 0..Len(g) : j \in Within(g, n)
  THEN CHOOSE n \in 0..Len(g) : j \in Within(g, n) /\ \A m \in 0..(n - 1) : j \notin Within(g, m)
  ELSE Len(g)

(* C31, as claimed: state 0 is the closure of the NFA root and the ids are *)
(* given breadth first: a state nearer to state 0 has the smaller id.      *)
C31_IdsBreadthFirst ==
  bld.phase = "done" =>
    /\ DstSet(0) = RefNilReach(bld.nfa, {0}) \ bld.b.allNilNodes
    /\ \A i, j \in DfaIds : Dist(bld.dfa, i) < Dist(bld.dfa, j) => i < j

(* C31, amended: state 0 is the closure of the NFA root and the ids are    *)
(* given in the order the states are found: every other state has an edge  *)
(* from a state of smaller id, every state is reached from state 0; the    *)
(* states not yet worked on are kept in the order of their ids, and a pass *)
(* of the loop works on the one found last, depth first.                   *)
IdsInDiscoveryOrder ==
  bld.phase \in {"loop", "done"} =>
    LET g == bld.b.nodes IN
      /\ Range(Node(g, 0).Set) = RefNilReach(bld.nfa, {0}) \ bld.b.allNilNodes
      /\ \A j \in BuiltIds \ {0} : \E i \in 0..(j - 1) : j \in SuccOf(g, i)
      /\ \A j \in BuiltIds : Dist(g, j) < Len(g)
      /\ \A k \in 1..(Len(bld.b.todo) - 1) : bld.b.todo[k] < bld.b.todo[k + 1]
      /\ bld.phase = "done" => bld.dfa = g

LastFoundIsNext ==
  bld.phase = "loop" /\ bld'.phase = "loop" /\ bld' # bld =>
    /\ Node(bld.b.nodes, bld.b.todo[Len(bld.b.todo)]).E = <<>>
    /\ Node(bld'.b.nodes, bld.b.todo[Len(bld.b.todo)]).E # <<>>

C31_IdsInDiscoveryOrder == []IdsInDiscoveryOrder /\ [][LastFoundIsNext]_vars

(* C31, its case: a built DFA where a state has a smaller id than a state  *)
(* nearer to state 0.                                                      *)
C31_Witness ==
  /\ bld.phase = "done"
  /\ \E i, j \in DfaIds : Dist(bld.dfa, i) < Dist(bld.dfa, j) /\ i > j


----------------------------------------------------------------------------
(* The NFA of one rule x{min,max} on its own: BuildNfa builds it, then a   *)
(* word is read rune by rune; cur holds the nodes the NFA can be in after  *)
(* the word w, by rune, class and wild edges and nil edges.                *)
MaxCount == 2

MaxWord == 4

RepeatSubs == {Lit(<<Runes.a>>), Lit(<<Runes.a, Runes.b>>), Class(<<Runes.a, Runes.b>>)}

RepeatExprs ==
  {Repeat(x, mn, mx) : <<x, mn, mx>> \in
     {q \in RepeatSubs \X (0..MaxCount) \X (-1..MaxCount) : q[3] = -1 \/ q[3] >= q[2]}}

InitRepeat ==
  /\ bld \in {[phase |-> "expr", re |-> r, nfa |-> <<>>, w |-> <<>>, cur |-> {}] : r \in RepeatExprs}
  /\ psr = NoParse
  /\ lex = NoLex
  /\ ver = 0 /\ prog = 0 /\ programDfa = <<>> /\ input = <<>>
  /\ stk = <<>> /\ rpc = "done" /\ cancelled = FALSE /\ chStop = 0 /\ closed = FALSE
  /\ cpc = "done" /\ curFrame = NoFrame /\ lstack = <<>> /\ lvl = 0
  /\ sent = <<>> /\ pieces = <<>> /\ acts = <<>>

RepeatBuild ==
  /\ bld.phase = "expr"
  /\ \E nfa \in {BuildNfa(<<Rule(10, bld.re, <<>>)>>)} :
       bld' = [bld EXCEPT !.phase = "run", !.nfa = nfa, !.cur = RefNilReach(nfa, {0})]
  /\ DfaRest

(* The nodes the edges that take rune r lead to from the nodes S.          *)
NfaStep(nfa, S, r) ==
  {Node(nfa, i).E[k].Dst : <<i, k>> \in
     {p \in S \X (1..Len(nfa)) : p[2] <= Len(Node(nfa, p[1]).E)
                                   /\ NfaTakes(Node(nfa, p[1]).E[p[2]], r)}}

RepeatRead ==
  /\ bld.phase = "run"
  /\ Len(bld.w) < MaxWord
  /\ \E r \in {Runes.a, Runes.b} :
       bld' = [bld EXCEPT !.w = Append(@, r),
                          !.cur = RefNilReach(bld.nfa, NfaStep(bld.nfa, bld.cur, r))]
  /\ DfaRest

NextRepeat == RepeatBuild \/ RepeatRead

SpecRepeat == InitRepeat /\ [][NextRepeat]_vars

(* C32: the NFA of x{min,max} accepts a word exactly when the word is made *)
(* of k words of x with min <= k <= max, of k >= min words when there is   *)
(* no max, x{0,} taking what x* takes.                                     *)
C32_RepeatCounts ==
  bld.phase = "run" =>
    ((\E i \in bld.cur : Node(bld.nfa, i).Accept = 10)
       <=> <<Len(bld.w), FALSE>> \in RefEnds(bld.re, bld.w, 0))


----------------------------------------------------------------------------
(* Claims on the NFA of a scope.                                           *)

AssertOps ==
  {"OpBeginLine", "OpEndLine", "OpBeginText", "OpEndText", "OpWordBoundary", "OpNoWordBoundary"}

(* The assertions of the mask A hold at place i of the word w.             *)
MaskHoldsAt(A, w, i) == \E op \in AssertOps : AssertOfOp(op) = A /\ RefAssertHolds(op, w, i)

(* The nodes reached from the nodes S over edges of any kind.              *)
RECURSIVE AnyReach(_, _)
AnyReach(nfa, S) ==
  LET more == UNION {{Node(nfa, i).E[k].Dst : k \in 1..Len(Node(nfa, i).E)} : i \in S}
  IN IF more \subseteq S THEN S ELSE AnyReach(nfa, S \cup more)

(* The nodes reached from the nodes S at place i of the word w without     *)
(* reading a rune: over nil edges and the assert edges that hold there.    *)
RECURSIVE StayReach(_, _, _, _)
StayReach(nfa, S, w, i) ==
  LET more == UNION {{Node(nfa, n).E[k].Dst : k \in
                        {j \in 1..Len(Node(nfa, n).E) :
                           \/ Node(nfa, n).E[j].Kind = KNil
                           \/ /\ Node(nfa, n).E[j].Kind = KAssert
                              /\ MaskHoldsAt(Node(nfa, n).E[j].A, w, i)}} : n \in S}
  IN IF more \subseteq S THEN S ELSE StayReach(nfa, S \cup more, w, i)

(* The nodes the NFA can be in at the end of the word w, started at its    *)
(* root at place 0.                                                        *)
RECURSIVE NfaRunFrom(_, _, _, _)
NfaRunFrom(nfa, S, w, i) ==
  IF i = Len(w) THEN S
  ELSE NfaRunFrom(nfa, StayReach(nfa, NfaStep(nfa, S, w[i + 1]), w, i + 1), w, i + 1)

NfaRun(nfa, w) == NfaRunFrom(nfa, StayReach(nfa, {0}, w, 0), w, 0)

NfaWords == SeqsUpTo({Runes.a, Runes.b, Runes.d}, MaxLen)

AcceptNodes(nfa, id) == {i \in NfaIds(nfa) : Node(nfa, i).Accept = id}

RuleIds == {bld.rules[k].Id : k \in 1..Len(bld.rules)}

(* BuildNfa has just returned: BuildDfa has made its start state only.     *)
NfaJustBuilt ==
  bld.phase = "loop" /\ Len(bld.b.nodes) = 1 /\ Node(bld.b.nodes, 0).E = <<>>

(* C33: in the NFA of a scope every rule has exactly one node with its id  *)
(* as accept label and no node has another label; every node of the list,  *)
(* the accept nodes among them, is reached from the root and every edge    *)
(* leads to a node of the list; a word leads to the accept node of a rule  *)
(* only if the rule's regex takes the word.                                *)
C33_OneAcceptPerRule ==
  NfaJustBuilt =>
    /\ \A id \in RuleIds : Cardinality(AcceptNodes(bld.nfa, id)) = 1
    /\ \A i \in NfaIds(bld.nfa) : Node(bld.nfa, i).Accept \in RuleIds \cup {-1}
    /\ AnyReach(bld.nfa, {0}) = NfaIds(bld.nfa)
    /\ \A w \in NfaWords :
         \A S \in {NfaRun(bld.nfa, w)} :
           \A k \in 1..Len(bld.rules) :
             AcceptNodes(bld.nfa, bld.rules[k].Id) \cap S # {}
               => \E f \in BOOLEAN : <<Len(w), f>> \in RefEnds(bld.rules[k].Regex, w, 0)

(* C33, its case: the NFA of two rules, one with an assertion, each with   *)
(* its accept node, and a word that leads to the accept node of the second *)
(* rule only.                                                              *)
C33_Witness ==
  /\ NfaJustBuilt /\ Len(bld.rules) = 2
  /\ \E k \in 1..2 : RefAnchored(bld.rules[k].Regex)
  /\ \E w \in NfaWords :
       /\ AcceptNodes(bld.nfa, bld.rules[2].Id) \cap NfaRun(bld.nfa, w) # {}
       /\ AcceptNodes(bld.nfa, bld.rules[1].Id) \cap NfaRun(bld.nfa, w) = {}


----------------------------------------------------------------------------
(* Claims on the built DFA against its NFA, word by word.                  *)

(* The DFA state after state d and rune r, the dead state staying dead;    *)
(* the NFA nodes after the nodes S and rune r, by the edges that take r    *)
(* and then nil edges.                                                     *)
DfaAfter(d, r) == IF d = -1 THEN -1 ELSE runeStep(Node(bld.dfa, d), r)

NfaAfter(S, r) == RefNilReach(bld.nfa, NfaStep(bld.nfa, S, r))

(* The pairs of the DFA state and the set of NFA nodes that a word of the  *)
(* probe runes, of any length, leads to from the pairs P.                  *)
RECURSIVE RunPairs(_)
RunPairs(P) ==
  LET more == {<<DfaAfter(p[1], r), NfaAfter(p[2], r)>> : <<p, r>> \in P \X ProbeRunes}
  IN IF more \subseteq P THEN P ELSE RunPairs(P \cup more)

WordPairs == RunPairs({<<0, RefNilReach(bld.nfa, {0})>>})

(* C34: for every word of runes, the DFA state the rune transitions lead   *)
(* to from state 0 is the dead state exactly when no NFA node is reached   *)
(* from the root on the word, and otherwise its accept label is the least  *)
(* rule id of the accepting NFA nodes reached on the word by rune, class,  *)
(* wild and nil edges, -1 if there is none.                                *)
C34_SubsetConstruction ==
  bld.phase = "done" =>
    \A p \in WordPairs :
      /\ p[1] = -1 <=> p[2] = {}
      /\ p[1] # -1 => Node(bld.dfa, p[1]).Accept = LeastId(AccIn(p[2]))


----------------------------------------------------------------------------
(* C35: once the scanner goroutine has exited, at the end of the input or  *)
(* after Stop, a caller waiting in the receive of the channel is not       *)
(* blocked for ever: nobody is left to send, so the receive can return     *)
(* only because the channel has been closed.                               *)
C35_ReceiveReturnsAfterExit ==
  (GoroutineExited /\ cpc = "recv") => closed


----------------------------------------------------------------------------
(* The frames of the runtime with start and end frames, read as brackets:  *)
(* a start frame opens a pair, an end frame closes the pair opened last    *)
(* and must carry its state, text, line and column.  Brackets(fs, i, open) *)
(* reads fs from its i-th frame on with the pairs of `open` not yet        *)
(* closed; it yields the pairs left open, or <<BadFrame>> where a frame    *)
(* breaks the bracketing: an end frame that closes nothing or differs from *)
(* its start frame, a start frame sent by a scan that is not as deep as    *)
(* the pairs open around it, or a frame after the outermost pair was       *)
(* closed.                                                                 *)
BadFrame == [kind |-> -1, state |-> -1, text |-> <<>>, line |-> -1, column |-> -1]

SamePair(f, g) ==
  /\ f.state = g.state /\ f.text = g.text
  /\ f.line = g.line /\ f.column = g.column

RECURSIVE Brackets(_, _, _)
Brackets(fs, i, open) ==
  IF i > Len(fs) THEN open
  ELSE IF i > 1 /\ open = <<>> THEN <<BadFrame>>
  ELSE IF fs[i].frame.kind = kStartCode
       THEN IF fs[i].depth = Len(open)
            THEN Brackets(fs, i + 1, Append(open, fs[i].frame))
            ELSE <<BadFrame>>
       ELSE IF open # <<>> /\ SamePair(open[Len(open)], fs[i].frame)
                 /\ fs[i].depth = Len(open) - 1
            THEN Brackets(fs, i + 1, SubSeq(open, 1, Len(open) - 1))
            ELSE <<BadFrame>>

OpenPairs == Brackets(sent, 1, <<>>)

(* C36: in the runtime with start and end frames, without cancellation,    *)
(* the frames sent are properly bracketed at every moment, the outermost   *)
(* pair is that of the root (state 0, sent by scanRoot), the pairs of a    *)
(* nested scan lie inside the pair of the match that started it, and when  *)
(* the goroutine has exited every start frame has had its one end frame    *)
(* with the same state, text, line and column.                             *)
C36_FramesBracketed ==
  (ver = 11 /\ ~cancelled) =>
    /\ OpenPairs # <<BadFrame>>
    /\ sent # <<>> => (sent[1].frame.kind = kStartCode /\ sent[1].frame.state = 0
                       /\ sent[1].depth = 0)
    /\ Len(OpenPairs) = IF stk = <<>> THEN (IF rpc = "rootEnd" THEN 1 ELSE 0)
                        ELSE Len(stk) + (IF Top.pc \in {"nest", "end"} THEN 1 ELSE 0)
    /\ GoroutineExited => (sent # <<>> /\ sent[Len(sent)].frame.kind = kEndCode
                             /\ sent[Len(sent)].frame.state = 0)

(* C36, its case: the goroutine has exited at the end of the input after a *)
(* match of a rule with nested rules whose nested scan sent a pair of its  *)
(* own: three pairs, one inside the other.                                 *)
C36_Witness ==
  /\ ver = 11 /\ ~cancelled /\ GoroutineExited
  /\ \E i, j, k \in 1..Len(sent) :
       /\ i < j /\ j < k
       /\ sent[i].frame.kind = kStartCode /\ sent[i].depth = 1
       /\ sent[j].frame.kind = kStartCode /\ sent[j].depth = 2
       /\ sent[k].frame.kind = kEndCode /\ sent[k].depth = 1
       /\ SamePair(sent[i].frame, sent[k].frame)
       /\ sent[i].frame.text # <<>>


----------------------------------------------------------------------------
(* The runes the list of ranges covers, and the runes of the ranges put in.*)
CoveredRunes(l) == UNION {(p[1])..(p[2]) : p \in Range(PairsOf(l))}

InsertedRunes == UNION {(r[1])..(r[2]) : r \in Range(bld.ins)}

(* C37: after any sequence of insertions the list of ranges covers exactly *)
(* the runes of the ranges put in: no rune of a range put in is dropped,   *)
(* no rune outside of every range put in is added.                         *)
C37_LimitsCoverInserted ==
  bld.phase = "limits" => CoveredRunes(bld.l) = InsertedRunes


----------------------------------------------------------------------------
(* C38: the scan loop never indexes the state table with the dead state    *)
(* -1.  In every DFA the generator built for the program no assert edge    *)
(* leads to -1, and assertStep yields a state for every non-empty part of  *)
(* the state's assertMask, which is whatever consumeAsserts can return; so *)
(* the rune transition that follows the assert transition has a state to   *)
(* index (the runtime with the frame stack does not test it).  After a     *)
(* rune transition to -1 the scanner is out of the inner loop.             *)
C38_DeadStateNeverIndexed ==
  /\ \A id \in DOMAIN programDfa :
       \A i \in 0..(Len(programDfa[id]) - 1) :
         \A n \in {Node(programDfa[id], i)} :
           /\ \A k \in 1..Len(n.E) : n.E[k].Kind = KAssert => n.E[k].Dst # -1
           /\ \A a \in SUBSET assertMask(n) : a # {} => assertStep(n, a) # -1
  /\ \A d \in 1..Len(stk) :
       /\ stk[d].pc # "panic"
       /\ stk[d].pc = "inner" => stk[d].st >= 0

(* C38, its case: a scanner of the runtime with the frame stack whose DFA  *)
(* has assert transitions from its start has matched and then taken a rune *)
(* transition to the dead state, which ended the inner loop.               *)
C38_Witness ==
  /\ ver = 12 /\ stk # <<>>
  /\ Top.pc = "stuck" /\ Top.st = -1 /\ Top.matchPos >= 1 /\ Top.pos > Top.matchPos
  /\ HasAssertStep(Node(programDfa[Top.dfa], 0))


----------------------------------------------------------------------------
(* The guard of checkAccept on the accept label of a DFA state.            *)
PassesAcceptGuard(accIndex) == accIndex > 0

(* C39: every id the parser gives a rule is greater than 0 (it is the      *)
(* count of the runes read when the closing delimiter of the regex has     *)
(* been read): the id of every regex that a call of readRegex of parseRoot *)
(* returns, and of every rule of the tree; so the accept label of a DFA    *)
(* state, which is the id of one of the rules of its scope, passes the     *)
(* guard accIndex > 0 of checkAccept.  Only the root of the program, which *)
(* is no rule, has the id 0.                                               *)
C39_RuleIdsPositive ==
  /\ psr.phase = "parsed" =>
       /\ \A k \in 1..Len(psr.reads) :
            ~psr.reads[k].nil => PassesAcceptGuard(psr.reads[k].node.Id)
       /\ psr.node.Id = 0
       /\ \A ids \in {Tail(IdsInOrder(psr.node))} :
            \A k \in 1..Len(ids) : PassesAcceptGuard(ids[k])
  /\ (psr.phase = "done" /\ ~IsNilProgram(psr.program)) =>
       /\ psr.program.Id = 0
       /\ \A ids \in {Tail(IdsInOrder(psr.program))} :
            \A k \in 1..Len(ids) : PassesAcceptGuard(ids[k])
       /\ \A x \in RulesOf(psr.program) :
            \A i \in 1..Len(x.DFA) :
              x.DFA[i].Accept # -1 =>
                /\ PassesAcceptGuard(x.DFA[i].Accept)
                /\ \E k \in 1..Len(x.Children) : x.Children[k].Id = x.DFA[i].Accept

(* C39, its case: a program was parsed whose first rule starts at the      *)
(* first rune of the source and has a rule in its scope, and the DFAs of   *)
(* both scopes have an accepting state.                                    *)
C39_Witness ==
  /\ psr.phase = "done"
  /\ psr.err = NoErr
  /\ psr.program.Children # <<>>
  /\ psr.program.Children[1].Id = Len(psr.program.Children[1].Regex) + 2
  /\ psr.program.Children[1].Children # <<>>
  /\ \E i \in 1..Len(psr.program.DFA) : psr.program.DFA[i].Accept > 0
  /\ \E i \in 1..Len(psr.program.Children[1].DFA) : psr.program.Children[1].DFA[i].Accept > 0

----------------------------------------------------------------------------
(* Claims on the bounds of the scanner's buffer.                           *)

BufferOrdered(s) == -1 <= s.matchPos /\ s.matchPos <= s.pos /\ s.pos <= Len(s.runes)

(* scan is about to call resetBuffer: after a match was sent, or with no   *)
(* match and a buffer that is not empty; ResetArg is the i it passes.      *)
AtResetCall(s) ==
  \/ s.pc = "reset"
  \/ s.pc = "stuck" /\ s.matchPos < s.minCapture /\ Len(s.runes) # 0

ResetArg(s) == IF s.pc = "reset" THEN s.matchPos ELSE 1

(* The scanner at the slices of resetBuffer(i): part_011 has consumed up   *)
(* to one rune past i, part_012 has loaded once.                           *)
AtSlices(s, i) == IF ver = 11 THEN resetConsume(s, i) ELSE loadNext(s)

(* matchPos has been set by this pass of the outer loop: the scanner is    *)
(* between the head of the loop and the return of resetBuffer.             *)
InAttempt(s) == s.pc \in {"inner", "stuck", "start", "nest", "end", "reset"}

(* C40, as claimed: at every point of a scan -1 <= matchPos <= pos <=      *)
(* len(runes), and at every call of resetBuffer(i) i <= len(runes) and     *)
(* i <= len(asserts), in the scanner of the root and of every nested scan. *)
C40_BufferInvariant ==
  \A d \in 1..Len(stk) :
    /\ BufferOrdered(stk[d])
    /\ AtResetCall(stk[d]) =>
         /\ ResetArg(stk[d]) <= Len(stk[d].runes)
         /\ ResetArg(stk[d]) <= Len(stk[d].asserts)

(* C40, amended: the order holds from the head of the outer loop, where    *)
(* matchPos is set to -1, to the call of resetBuffer; resetBuffer sets pos *)
(* to 0 and leaves matchPos as it was, so until the next pass starts only  *)
(* -1 <= matchPos and pos <= len(runes) hold.  The slices are in bounds:   *)
(* runes[:matchPos] of a match, and runes[:i], runes[i:] and asserts[i:]   *)
(* of resetBuffer(i) where it takes them.                                  *)
C40_BufferInvariantInAttempt ==
  \A d \in 1..Len(stk) :
    /\ -1 <= stk[d].matchPos
    /\ 0 <= stk[d].pos /\ stk[d].pos <= Len(stk[d].runes)
    /\ InAttempt(stk[d]) => BufferOrdered(stk[d])
    /\ stk[d].pc \in {"start", "nest", "end", "reset"} =>
         (0 <= stk[d].matchPos /\ stk[d].text = SubSeq(stk[d].runes, 1, stk[d].matchPos))
    /\ AtResetCall(stk[d]) =>
         /\ ResetArg(stk[d]) >= 0
         /\ ResetArg(stk[d]) <= Len(stk[d].runes)
         /\ ResetArg(stk[d]) <= Len(stk[d].asserts)
         /\ \A s1 \in {AtSlices(stk[d], ResetArg(stk[d]))} :
              /\ ResetArg(stk[d]) <= Len(s1.runes)
              /\ ResetArg(stk[d]) <= Len(s1.asserts)

(* C40, its case: a nested scanner is about to shift a match out of its    *)
(* buffer with runes read ahead of the match, and its parent waits with    *)
(* its own match.                                                          *)
C40_Witness ==
  /\ Len(stk) >= 2
  /\ Top.pc = "reset" /\ Top.matchPos >= 1 /\ Top.pos > Top.matchPos
  /\ stk[Len(stk) - 1].pc = "nest" /\ stk[Len(stk) - 1].matchPos >= 2

====
